---- MODULE Spec2Model ----
(***************************************************************************)
(* A model of ReportEngine/renderers/html_renderer.py (class HTMLRenderer):*)
(* the defensive normalisation of a Document IR and its rendering.         *)
(*                                                                         *)
(* Python text is modelled as a sequence of one-character strings, so that *)
(* searching, truncating and stripping are computed on the characters.     *)
(* Each component has its own variables and its own specification; a       *)
(* specification leaves the variables of the other components idle.        *)
(***************************************************************************)
EXTENDS Integers, Sequences, FiniteSets, TLC

VARIABLES
    cleanHist,      \* Artifact Cleaner: <<s, clean(s), clean(clean(s))>> as far as applied
    tableIn,        \* Table Normalizer: the rows handed to _normalize_table_rows
    tableOut,       \* Table Normalizer: [done, rows] the rows it returned
    calloutIn,      \* Callout Sanitizer: the callout's children (block.get("blocks"))
    calloutOut,     \* Callout Sanitizer: [done, kept, overflow] as _split_callout_content returned
    labelIn,        \* Heading Labeler: the chapters handed to _compute_heading_labels
    labelOut,       \* Heading Labeler: [done, map] the label map it returned
    inlineIn,       \* Inline Resolver: the run handed to _normalize_inline_payload
    inlineOut,      \* Inline Resolver: [done, ok, text, marks] as it returned
    walk,           \* text chain of a run: [links, phase, at, depth, seen]
    heap,           \* render: the chapter objects, heap[o] the value of object o
    document,       \* render: the Document handed over, [metadata, chapters (objects)]
    given,          \* render: the value of the Document when render was called
    renderer,       \* render: the instance state of the HTMLRenderer
    pc,             \* render: "idle", "prepared", "indexed", "body", "done" or "raised"
    out,            \* render: the parts of the page rendered so far, and the page
    calls,          \* render: the number of calls made on the instance
    other           \* render: [pc, out, document, given] of a second call that is
                    \* suspended, and whether the two calls have overlapped

vars ==
    <<cleanHist, tableIn, tableOut, calloutIn, calloutOut, labelIn, labelOut,
      inlineIn, inlineOut, walk, heap, document, given, renderer, pc, out, calls, other>>

cleanVars == <<cleanHist>>
tableVars == <<tableIn, tableOut>>
calloutVars == <<calloutIn, calloutOut>>
labelVars == <<labelIn, labelOut>>
inlineVars == <<inlineIn, inlineOut>>
walkVars == <<walk>>
renderVars == <<heap, document, given, renderer, pc, out, calls, other>>

(***************************************************************************)
(* Generic helpers on sequences.                                           *)
(***************************************************************************)
\* All sequences over S of length 0..n.
SeqsUpTo(S, n) == UNION {[1..k -> S] : k \in 0..n}

Prefix(s, n) == SubSeq(s, 1, n)

Min(a, b) == IF a <= b THEN a ELSE b

(***************************************************************************)
(* Artifact Cleaner: _clean_text_from_json_artifacts.                      *)
(***************************************************************************)
\* Bound: the longest text handed to the cleaner.
MaxTextLen == 5

\* The characters of the modelled texts: the structural characters the
\* cleaner looks for, a separator, a blank and one ordinary letter.
CleanChars == {"{", "}", "[", "]", ",", "\"", ":", " ", "a"}

\* \s of the regular expressions and of str.strip().
WhiteSpace == {" ", "\t", "\n", "\r"}

\* The characters of rstrip(',，、 \t\n').
TrailingSeparators == {",", "U+FF0C", "U+3001", " ", "\t", "\n"}

\* str.rfind(c): the last position of c, 0 when absent (Python's -1).
RFind(s, c) ==
    LET hits == {i \in 1..Len(s) : s[i] = c}
    IN  IF hits = {} THEN 0 ELSE CHOOSE i \in hits : \A j \in hits : j <= i

\* str.rstrip(chars).
RStrip(s, chars) ==
    LET keep == {i \in 1..Len(s) : s[i] \notin chars}
    IN  IF keep = {} THEN <<>>
        ELSE Prefix(s, CHOOSE i \in keep : \A j \in keep : j <= i)

\* str.strip(): leading and trailing white space removed.
Strip(s) ==
    LET keep == {i \in 1..Len(s) : s[i] \notin WhiteSpace}
    IN  IF keep = {} THEN <<>>
        ELSE SubSeq(s, CHOOSE i \in keep : \A j \in keep : i <= j,
                       CHOOSE i \in keep : \A j \in keep : j <= i)

AllIn(s, from, to, S) == \A k \in from..to : s[k] \in S
NoneIn(s, from, to, S) == \A k \in from..to : s[k] \notin S

\* re.sub(pattern, '', s) for a pattern that ends in $ : the leftmost match
\* runs to the end of the text, so the text is cut at the match's start.
CutAtLeftmost(s, starts) ==
    IF starts = {} THEN s
    ELSE Prefix(s, (CHOOSE p \in starts : \A q \in starts : p <= q) - 1)

\* Start positions of  ,\s*OPEN[^CLOSE]*$  (patterns 1 and 2).
DanglingTailStarts(s, open, close) ==
    {p \in 1..Len(s) :
        /\ s[p] = ","
        /\ \E j \in (p + 1)..Len(s) :
              /\ AllIn(s, p + 1, j - 1, WhiteSpace)
              /\ s[j] = open
              /\ NoneIn(s, j + 1, Len(s), {close})}

\* Positions c of the colon of  ,?\s*"[^"]+"\s*:  for a match starting at p.
KeyColonAt(s, p) ==
    {c \in 1..Len(s) :
        /\ s[c] = ":"
        /\ \E q1 \in p..Len(s), q2 \in p..Len(s) :
              /\ q1 + 1 < q2 /\ q2 < c
              /\ \/ AllIn(s, p, q1 - 1, WhiteSpace)
                 \/ s[p] = "," /\ AllIn(s, p + 1, q1 - 1, WhiteSpace)
              /\ s[q1] = "\"" /\ s[q2] = "\""
              /\ NoneIn(s, q1 + 1, q2 - 1, {"\""})
              /\ AllIn(s, q2 + 1, c - 1, WhiteSpace)}

\* Start positions of  ,?\s*"[^"]+"\s*:\s*"[^"]*$  (pattern 5, first form).
OpenStringPairStarts(s) ==
    {p \in 1..Len(s) :
        \E c \in KeyColonAt(s, p) :
            \E q3 \in (c + 1)..Len(s) :
                /\ AllIn(s, c + 1, q3 - 1, WhiteSpace)
                /\ s[q3] = "\""
                /\ NoneIn(s, q3 + 1, Len(s), {"\""})}

\* Start positions of  ,?\s*"[^"]+"\s*:\s*[^,}\]]*$  (pattern 5, second form).
OpenValuePairStarts(s) ==
    {p \in 1..Len(s) :
        \E c \in KeyColonAt(s, p) : NoneIn(s, c + 1, Len(s), {",", "}", "]"})}

\* Patterns 3 and 4: an opening symbol whose last occurrence lies after the
\* last closing symbol truncates the text before it.
TruncateUnclosed(s, open, close) ==
    LET openPos == RFind(s, open)
    IN  IF openPos # 0 /\ RFind(s, close) < openPos
        THEN RStrip(Prefix(s, openPos - 1), TrailingSeparators)
        ELSE s

CleanText(s) ==
    IF s = <<>> THEN <<>>
    ELSE LET s1 == CutAtLeftmost(s, DanglingTailStarts(s, "{", "}"))
             s2 == CutAtLeftmost(s1, DanglingTailStarts(s1, "[", "]"))
             s3 == TruncateUnclosed(s2, "{", "}")
             s4 == TruncateUnclosed(s3, "[", "]")
             s5 == CutAtLeftmost(s4, OpenStringPairStarts(s4))
             s6 == CutAtLeftmost(s5, OpenValuePairStarts(s5))
         IN  Strip(RStrip(s6, TrailingSeparators))

CleanIdle == cleanHist = <<>>

\* The texts of at most maxLen characters, each as a history of one entry.
CleanInputs(maxLen) == {<<s>> : s \in SeqsUpTo(CleanChars, maxLen)}

\* The caller applies the cleaner to the text it holds, and again to the result.
CleanStep ==
    /\ Len(cleanHist) \in {1, 2}
    /\ cleanHist' = Append(cleanHist, CleanText(cleanHist[Len(cleanHist)]))


(***************************************************************************)
(* Table Normalizer: _normalize_table_rows and its helpers.                *)
(* A row is [cells |-> <<cell>>], a cell [blocks |-> <<block>>, header],   *)
(* a block [type, inlines |-> <<[text |-> characters]>>].                  *)
(***************************************************************************)
\* Bound: the longest row list drawn besides the reference table.
MaxRows == 4

HeaderMaxLen == 12
ValueMinLen == 12
MaxHeaderFields == 8

Digits == {"0", "1", "2", "3", "4", "5", "6", "7", "8", "9"}

TABLE_COMPLEX_CHARS ==
    {"@", "U+FF05", "%", "U+FF08", "U+FF09", "(", ")", "U+FF0C", ",", "U+3002", "U+FF1B", ";", "U+FF1A", ":",
     "U+3001", "U+FF1F", "?", "U+FF01", "!", "U+00B7", "U+2026", "-", "U+2014", "_", "+", "<", ">", "[",
     "]", "{", "}", "|", "\\", "/", "\"", "'", "U+0060", "~", "$", "^", "&", "*", "#"}

RECURSIVE Concat(_)
\* "".join(parts)
Concat(parts) ==
    IF parts = <<>> THEN <<>>
    ELSE IF Len(parts) = 1 THEN parts[1]
    ELSE LET half == Len(parts) \div 2
         IN  Concat(SubSeq(parts, 1, half)) \o Concat(SubSeq(parts, half + 1, Len(parts)))

ParagraphText(block) ==
    IF block.type = "paragraph"
    THEN Concat([i \in 1..Len(block.inlines) |-> block.inlines[i].text])
    ELSE <<>>

_extract_row_text(row) ==
    IF row.cells = <<>> THEN <<>>
    ELSE LET cell == row.cells[1]
         IN  Concat([i \in 1..Len(cell.blocks) |-> ParagraphText(cell.blocks[i])])

HasDataChar(s) == \E i \in 1..Len(s) : s[i] \in Digits \cup TABLE_COMPLEX_CHARS

_is_potential_table_header(text) ==
    /\ text # <<>>
    /\ Strip(text) # <<>>
    /\ Len(Strip(text)) <= HeaderMaxLen
    /\ ~HasDataChar(Strip(text))

_looks_like_table_value(text) ==
    /\ text # <<>>
    /\ \/ Len(Strip(text)) >= ValueMinLen
       \/ HasDataChar(Strip(text))

\* The loop of _detect_transposed_header_span: the number of leading texts,
\* among the first max_fields, that look like header fields.
LeadingHeaders(texts, max_fields) ==
    LET stops == {i \in 1..Len(texts) :
                     i > max_fields \/ ~_is_potential_table_header(texts[i])}
    IN  IF stops = {} THEN Len(texts)
        ELSE (CHOOSE i \in stops : \A j \in stops : i <= j) - 1

_detect_transposed_header_span(rows, texts) ==
    LET max_fields == Min(MaxHeaderFields, Len(rows) \div 2)
        header_span == LeadingHeaders(texts, max_fields)
    IN  IF header_span < 2 THEN 0
        ELSE IF Len(texts) - header_span = 0
                \/ (Len(rows) - header_span) % header_span # 0 THEN 0
        ELSE IF ~\E i \in (header_span + 1)..Len(texts) :
                    _looks_like_table_value(texts[i]) THEN 0
        ELSE header_span

\* (row.get("cells") or [{}])[0]; the rows reaching here hold one cell each.
FirstCell(row) == row.cells[1]

\* A plausible slip: the header row is cut one row short (rows[:span - 1]).
TransposeShortHeader(rows, span) ==
    LET total == Len(rows)
    IN  IF total <= span \/ (total - span) % span # 0 THEN <<>>
        ELSE LET header_cells ==
                     [i \in 1..(span - 1) |-> [FirstCell(rows[i]) EXCEPT !.header = TRUE]]
                 groups == (total - span) \div span
                 group(g) ==
                     [cells |-> [i \in 1..span |-> FirstCell(rows[span + (g - 1) * span + i])]]
             IN  <<[cells |-> header_cells]>> \o [g \in 1..groups |-> group(g)]

_transpose_single_cell_table(rows, span) ==
    LET total == Len(rows)
    IN  IF total <= span \/ (total - span) % span # 0 THEN <<>>
        ELSE LET header_cells ==
                     [i \in 1..span |-> [FirstCell(rows[i]) EXCEPT !.header = TRUE]]
                 groups == (total - span) \div span
                 group(g) ==
                     [cells |-> [i \in 1..span |-> FirstCell(rows[span + (g - 1) * span + i])]]
             IN  <<[cells |-> header_cells]>> \o [g \in 1..groups |-> group(g)]

_normalize_table_rows(rows) ==
    IF rows = <<>> THEN <<>>
    ELSE IF ~\A i \in 1..Len(rows) : Len(rows[i].cells) = 1 THEN rows
    ELSE LET texts == [i \in 1..Len(rows) |-> _extract_row_text(rows[i])]
             header_span == _detect_transposed_header_span(rows, texts)
         IN  IF header_span = 0 THEN rows
             ELSE LET normalized == _transpose_single_cell_table(rows, header_span)
                  IN  IF normalized = <<>> THEN rows ELSE normalized

TextCell(text) ==
    [blocks |-> <<[type |-> "paragraph", inlines |-> <<[text |-> text]>>]>>,
     header |-> FALSE]

TextRow(text) == [cells |-> <<TextCell(text)>>]

\* The reference transposed table: nine single-cell rows.
ReferenceTexts ==
    << <<"U+59D3", "U+540D">>, <<"U+5E74", "U+9F84">>, <<"U+57CE", "U+5E02">>,
       <<"U+5F20", "U+4E09">>, <<"3", "0">>, <<"U+5317", "U+4EAC">>,
       <<"U+674E", "U+56DB">>, <<"2", "5">>, <<"U+4E0A", "U+6D77">> >>

ReferenceRows == [i \in 1..Len(ReferenceTexts) |-> TextRow(ReferenceTexts[i])]

LongText == [i \in 1..ValueMinLen |-> "U+957F"]

\* The rows the bounded inputs are built from: header-like, value-like, empty
\* and long single cells, a cell without a paragraph, and rows of 0 and 2 cells.
RowPool ==
    {TextRow(<<"U+59D3", "U+540D">>), TextRow(<<"3", "0">>), TextRow(<<>>), TextRow(LongText),
     [cells |-> <<[blocks |-> <<[type |-> "code", inlines |-> <<>>]>>, header |-> FALSE]>>],
     [cells |-> <<>>],
     [cells |-> <<TextCell(<<"U+59D3", "U+540D">>), TextCell(<<"3", "0">>)>>]}

TableInputs(maxRows) == {ReferenceRows} \cup SeqsUpTo(RowPool, maxRows)

TableIdle == tableIn = <<>> /\ tableOut = [done |-> FALSE, rows |-> <<>>]


\* _render_table hands the block's rows to the normalizer.
NormalizeTable ==
    /\ ~tableOut.done
    /\ tableOut' = [done |-> TRUE, rows |-> _normalize_table_rows(tableIn)]
    /\ UNCHANGED tableIn


(***************************************************************************)
(* Callout Sanitizer: _split_callout_content and _sanitize_callout_list.   *)
(* A block is [type, tag, items]: tag stands for the block's own content,  *)
(* items (of a list block) is a sequence of items, each a block sequence.  *)
(***************************************************************************)
\* Bound: the longest sequence of non-list children of a callout.
MaxChildren == 4
\* Bound: the most items of a list inside a callout.
MaxItems == 2

CALLOUT_ALLOWED_TYPES ==
    {"paragraph", "list", "table", "blockquote", "code", "math", "figure", "kpiGrid"}

Leaf(type, tag) == [type |-> type, tag |-> tag, items |-> <<>>]

ListBlock(tag, items) == [type |-> "list", tag |-> tag, items |-> items]

\* A plausible slip: disallowed children are skipped one by one, the scan goes
\* on and later allowed siblings stay inside the callout.
SplitSkippingDisallowed(blocks) ==
    [kept |-> SelectSeq(blocks, LAMBDA b : b.type \in CALLOUT_ALLOWED_TYPES),
     overflow |-> SelectSeq(blocks, LAMBDA b : b.type \notin CALLOUT_ALLOWED_TYPES)]

\* A plausible slip: the list is kept whole while its overflow is still
\* reported (new_block["items"] is never replaced).
SanitizeKeepingItems(block) ==
    LET bad == {i \in 1..Len(block.items) :
                   \E j \in 1..Len(block.items[i]) :
                       block.items[i][j].type \notin CALLOUT_ALLOWED_TYPES}
    IN  [sanitized |-> <<block>>,
         overflow |-> IF bad = {} THEN <<>>
                      ELSE Concat(SubSeq(block.items,
                                         CHOOSE i \in bad : \A j \in bad : i <= j,
                                         Len(block.items)))]

RECURSIVE _split_callout_content(_), _sanitize_callout_list(_)
RECURSIVE SplitLoop(_, _, _), SanitizeLoop(_, _, _)

\* A plausible slip: the trailing blocks start after the disallowed child
\* (blocks[idx + 1:] in place of blocks[idx:]).
SplitLoopLosingChild(blocks, idx, safe) ==
    IF idx > Len(blocks) THEN [kept |-> safe, overflow |-> <<>>]
    ELSE LET child == blocks[idx]
             rest == SubSeq(blocks, idx + 1, Len(blocks))
         IN  IF child.type = "list"
             THEN LET r == _sanitize_callout_list(child)
                      safe2 == safe \o r.sanitized
                  IN  IF r.overflow # <<>>
                      THEN [kept |-> safe2, overflow |-> r.overflow \o rest]
                      ELSE SplitLoop(blocks, idx + 1, safe2)
             ELSE IF child.type \in CALLOUT_ALLOWED_TYPES
             THEN SplitLoop(blocks, idx + 1, Append(safe, child))
             ELSE [kept |-> safe, overflow |-> rest]

\* The for loop of _split_callout_content from child idx on, safe so far.
SplitLoop(blocks, idx, safe) ==
    IF idx > Len(blocks) THEN [kept |-> safe, overflow |-> <<>>]
    ELSE LET child == blocks[idx]
             rest == SubSeq(blocks, idx + 1, Len(blocks))
         IN  IF child.type = "list"
             THEN LET r == _sanitize_callout_list(child)
                      safe2 == safe \o r.sanitized
                  IN  IF r.overflow # <<>>
                      THEN [kept |-> safe2, overflow |-> r.overflow \o rest]
                      ELSE SplitLoop(blocks, idx + 1, safe2)
             ELSE IF child.type \in CALLOUT_ALLOWED_TYPES
             THEN SplitLoop(blocks, idx + 1, Append(safe, child))
             ELSE [kept |-> safe, overflow |-> <<child>> \o rest]

_split_callout_content(blocks) ==
    IF blocks = <<>> THEN [kept |-> <<>>, overflow |-> <<>>]
    ELSE SplitLoop(blocks, 1, <<>>)

\* A plausible slip: the items after the overflowing one are left out of the
\* trailing blocks.
SanitizeLoopDroppingRest(items, idx, sanitized_items) ==
    IF idx > Len(items) THEN [items |-> sanitized_items, trailing |-> <<>>]
    ELSE LET r == _split_callout_content(items[idx])
             items2 == IF r.kept # <<>> THEN Append(sanitized_items, r.kept)
                       ELSE sanitized_items
         IN  IF r.overflow # <<>>
             THEN [items |-> items2, trailing |-> r.overflow]
             ELSE SanitizeLoop(items, idx + 1, items2)

\* The for loop of _sanitize_callout_list from item idx on: the sanitized
\* items and the trailing blocks.
SanitizeLoop(items, idx, sanitized_items) ==
    IF idx > Len(items) THEN [items |-> sanitized_items, trailing |-> <<>>]
    ELSE LET r == _split_callout_content(items[idx])
             items2 == IF r.kept # <<>> THEN Append(sanitized_items, r.kept)
                       ELSE sanitized_items
         IN  IF r.overflow # <<>>
             THEN [items |-> items2,
                   trailing |-> r.overflow \o Concat(SubSeq(items, idx + 1, Len(items)))]
             ELSE SanitizeLoop(items, idx + 1, items2)

\* sanitized is <<>> for None and <<new_block>> otherwise.
_sanitize_callout_list(block) ==
    IF block.items = <<>> THEN [sanitized |-> <<block>>, overflow |-> <<>>]
    ELSE LET r == SanitizeLoop(block.items, 1, <<>>)
         IN  IF r.items = <<>> THEN [sanitized |-> <<>>, overflow |-> r.trailing]
             ELSE [sanitized |-> <<[block EXCEPT !.items = r.items]>>,
                   overflow |-> r.trailing]

P1 == Leaf("paragraph", 1)
P2 == Leaf("paragraph", 2)
T3 == Leaf("table", 3)
W4 == Leaf("widget", 4)
H5 == Leaf("heading", 5)

CalloutLeaves == {P1, P2, T3, W4}

\* The items the lists of the bounded inputs are built from: empty, allowed
\* only, disallowed first, disallowed last, and items holding a nested list.
ItemPool ==
    {<<>>, <<P1>>, <<W4>>, <<P1, T3>>, <<P2, W4>>, <<W4, P2>>,
     <<ListBlock(6, << <<P2>> >>)>>,
     <<P1, ListBlock(7, << <<T3, H5>>, <<P2>> >>), T3>>,
     <<ListBlock(8, << <<H5>> >>), P2>>}

CalloutLists(maxItems) ==
    {ListBlock(9, items) : items \in SeqsUpTo(ItemPool, maxItems)}

\* The reference callout of the Callout Sanitizer.
ReferenceCallout ==
    <<Leaf("paragraph", 1), Leaf("table", 3), Leaf("widget", 4), Leaf("paragraph", 2)>>

CalloutInputs(maxChildren, maxItems) ==
    SeqsUpTo(CalloutLeaves, maxChildren)
    \cup {pre \o <<l>> \o post :
            pre \in {<<>>, <<P1>>, <<W4>>}, l \in CalloutLists(maxItems),
            post \in {<<>>, <<P2>>, <<W4>>, <<T3, H5>>}}

CalloutIdle ==
    calloutIn = <<>> /\ calloutOut = [done |-> FALSE, kept |-> <<>>, overflow |-> <<>>]

\* _render_callout splits the callout's children.
SplitCallout ==
    /\ ~calloutOut.done
    /\ LET r == _split_callout_content(calloutIn)
       IN  calloutOut' = [done |-> TRUE, kept |-> r.kept, overflow |-> r.overflow]
    /\ UNCHANGED calloutIn


(***************************************************************************)
(* Heading Labeler: _compute_heading_labels, _strip_order_prefix and       *)
(* _to_chinese_numeral.  A chapter is [anchor, blocks]; a heading block is *)
(* [type, level, anchor, text]; a missing anchor is "" (falsy in Python).  *)
(* A character outside ASCII is written by its code point, "U+4E00".       *)
(***************************************************************************)
\* Bound: the most chapters of a document.
MaxChapters == 2
\* Bound: the most heading blocks of a chapter.
MaxHeadings == 3

RECURSIVE Decimal(_)
\* str(n) for n >= 0.
Decimal(n) ==
    LET digit == <<"0", "1", "2", "3", "4", "5", "6", "7", "8", "9">>[(n % 10) + 1]
    IN  IF n < 10 THEN <<digit>> ELSE Append(Decimal(n \div 10), digit)

\* The list numerals of _to_chinese_numeral, numerals[0] first.
Numerals ==
    <<"U+96F6", "U+4E00", "U+4E8C", "U+4E09", "U+56DB", "U+4E94",
      "U+516D", "U+4E03", "U+516B", "U+4E5D", "U+5341">>

\* For number in 0..109 (numerals[tens] exists).
_to_chinese_numeral(number) ==
    LET tens == number \div 10
        ones == number % 10
    IN  IF number <= 10 THEN <<Numerals[number + 1]>>
        ELSE IF number < 20
        THEN <<"U+5341">> \o (IF ones # 0 THEN <<Numerals[ones + 1]>> ELSE <<>>)
        ELSE (IF tens > 0 THEN <<Numerals[tens + 1], "U+5341">> ELSE <<>>)
             \o (IF ones # 0 THEN <<Numerals[ones + 1]>> ELSE <<>>)

\* str.lstrip().
LStrip(s) ==
    LET keep == {i \in 1..Len(s) : s[i] \notin WhiteSpace}
    IN  IF keep = {} THEN <<>>
        ELSE SubSeq(s, CHOOSE i \in keep : \A j \in keep : i <= j, Len(s))

\* The separators of _strip_order_prefix, in the order tried.
OrderSeparators == <<" ", "U+3001", ".", "U+FF0E">>

RECURSIVE StripAtSeparator(_, _)
\* The for loop of _strip_order_prefix from separator k on.
StripAtSeparator(stripped, k) ==
    IF k > Len(OrderSeparators) THEN Strip(stripped)
    ELSE LET hits == {i \in 1..Len(stripped) : stripped[i] = OrderSeparators[k]}
             first == CHOOSE i \in hits : \A j \in hits : i <= j
         IN  IF hits # {} /\ first > 1
             THEN Strip(SubSeq(stripped, first + 1, Len(stripped)))
             ELSE StripAtSeparator(stripped, k + 1)

_strip_order_prefix(text) ==
    IF text = <<>> THEN <<>> ELSE StripAtSeparator(LStrip(text), 1)

RECURSIVE SortedLevels(_)
\* sorted(deep_counters.keys())
SortedLevels(S) ==
    IF S = {} THEN <<>>
    ELSE LET m == CHOOSE x \in S : \A y \in S : x <= y
         IN  <<m>> \o SortedLevels(S \ {m})

\* ".".join(parts)
RECURSIVE JoinDots(_)
JoinDots(parts) ==
    IF parts = <<>> THEN <<>>
    ELSE IF Len(parts) = 1 THEN parts[1]
    ELSE parts[1] \o <<".">> \o JoinDots(Tail(parts))

OrOne(n) == IF n = 0 THEN 1 ELSE n

\* dict assignment d[k] = v.
Put(d, k, v) == [x \in DOMAIN d \cup {k} |-> IF x = k THEN v ELSE d[x]]

\* The per-chapter counters at the start of a chapter.
ChapterStart(map) ==
    [seen |-> FALSE, section |-> 0, subsection |-> 0, deep |-> <<>>, map |-> map]

\* A plausible slip: the first heading of a chapter is numbered like any
\* other heading, as section c.1.
HeadingStepFirstAsSection(st, chap_idx, chapter, block) ==
    LET anchor == IF block.anchor # "" THEN block.anchor ELSE chapter.anchor
        clean_title == _strip_order_prefix(block.text)
        section == st.section + 1
        label == JoinDots(<<Decimal(chap_idx), Decimal(section)>>)
    IN  IF block.type # "heading" \/ anchor = "" THEN st
        ELSE [st EXCEPT !.seen = TRUE, !.section = section,
                        !.map = Put(st.map, anchor,
                                    [level |-> block.level,
                                     display |-> Strip(label \o <<" ">> \o clean_title),
                                     label |-> label, title |-> clean_title])]

\* One pass of the inner loop of _compute_heading_labels: block of chapter
\* number chap_idx, with the chapter's counters and the label map in st.
HeadingStep(st, chap_idx, chapter, block) ==
    LET level == block.level
        anchor == IF block.anchor # "" THEN block.anchor ELSE chapter.anchor
        clean_title == _strip_order_prefix(block.text)
        first == ~st.seen
        shallow == st.seen /\ level <= 2
        section == IF first THEN 0
                   ELSE IF shallow THEN st.section + 1
                   ELSE OrOne(st.section)
        subsection == IF first \/ shallow THEN 0
                      ELSE IF level = 3 THEN st.subsection + 1
                      ELSE st.subsection
        deep == IF first \/ shallow \/ level = 3 THEN <<>>
                ELSE Put(st.deep, level,
                         (IF level \in DOMAIN st.deep THEN st.deep[level] ELSE 0) + 1)
        levels == SortedLevels(DOMAIN deep)
        label == IF first THEN _to_chinese_numeral(chap_idx) \o <<"U+3001">>
                 ELSE IF shallow THEN JoinDots(<<Decimal(chap_idx), Decimal(section)>>)
                 ELSE IF level = 3
                 THEN JoinDots(<<Decimal(chap_idx), Decimal(section), Decimal(subsection)>>)
                 ELSE JoinDots(<<Decimal(chap_idx), Decimal(OrOne(section)),
                                 Decimal(OrOne(subsection))>>
                               \o [i \in 1..Len(levels) |-> Decimal(deep[levels[i]])])
    IN  IF block.type # "heading" \/ anchor = "" THEN st
        ELSE [seen |-> TRUE, section |-> section, subsection |-> subsection,
              deep |-> deep,
              map |-> Put(st.map, anchor,
                          [level |-> level,
                           display |-> Strip(label \o <<" ">> \o clean_title),
                           label |-> label, title |-> clean_title])]

RECURSIVE LabelBlocks(_, _, _, _)
\* The inner loop over chapter.get("blocks") from block k on.
LabelBlocks(st, chap_idx, chapter, k) ==
    IF k > Len(chapter.blocks) THEN st
    ELSE LabelBlocks(HeadingStep(st, chap_idx, chapter, chapter.blocks[k]),
                     chap_idx, chapter, k + 1)

RECURSIVE LabelChapters(_, _, _)
\* The outer loop over the chapters from chapter chap_idx on.
LabelChapters(map, chapters, chap_idx) ==
    IF chap_idx > Len(chapters) THEN map
    ELSE LabelChapters(
             LabelBlocks(ChapterStart(map), chap_idx, chapters[chap_idx], 1).map,
             chapters, chap_idx + 1)

_compute_heading_labels(chapters) == LabelChapters(<<>>, chapters, 1)

HeadingLevels == {1, 2, 3, 4, 5}

\* The heading texts of the bounded inputs: a plain title, titles carrying
\* an ordinal prefix ("1.2 T", "U+4E00 U+3001 T") and a two-word title.
HeadingTexts ==
    {<<"T">>, <<"1", ".", "2", " ", "T">>, <<"U+4E00", "U+3001", "T">>,
     <<"T", " ", "S">>}

AnchorOf(c, j) == "c" \o ToString(c) \o "h" \o ToString(j)

\* Chapter c with headings of the given levels; the heading at position
\* bare (0: none) has no anchor of its own.
LabelChapter(c, levels, text, bare, chapterAnchor) ==
    [anchor |-> IF chapterAnchor THEN "ch" \o ToString(c) ELSE "",
     blocks |-> [j \in 1..Len(levels) |->
                    [type |-> "heading", level |-> levels[j],
                     anchor |-> IF j = bare THEN "" ELSE AnchorOf(c, j),
                     text |-> text]]]

\* The first chapter's heading levels are drawn freely; each further chapter
\* repeats them or is a level-1 heading followed by level-2 headings.  One
\* more family: a single chapter of a level-1 heading followed by
\* maxHeadings headings of levels 2 to 5.
LabelInputs(maxChapters, maxHeadings) ==
    {[c \in 1..n |->
        LabelChapter(c, IF c = 1 \/ same THEN levels
                        ELSE [j \in 1..maxHeadings |-> IF j = 1 THEN 1 ELSE 2],
                     text, bare, chapterAnchor)] :
        n \in 1..maxChapters, same \in BOOLEAN,
        levels \in SeqsUpTo(HeadingLevels, maxHeadings),
        text \in HeadingTexts, bare \in 0..1, chapterAnchor \in BOOLEAN}
    \cup {<<LabelChapter(1, <<1>> \o levels, <<"T">>, 0, TRUE)>> :
              levels \in [1..maxHeadings -> HeadingLevels \ {1}]}

LabelIdle == labelIn = <<>> /\ labelOut = [done |-> FALSE, map |-> <<>>]

\* render computes the label map of the prepared chapters.
ComputeLabels ==
    /\ ~labelOut.done
    /\ labelOut' = [done |-> TRUE, map |-> _compute_heading_labels(labelIn)]
    /\ UNCHANGED labelIn


(***************************************************************************)
(* Document IR values.  A Python value is a record tagged by its type:     *)
(* dict, list, str, int or None.  A dict is a function from its keys; a    *)
(* str is a sequence of tokens, each token a structural character or an    *)
(* unbroken run of ordinary characters ("heading", "T").                   *)
(***************************************************************************)
JNone == [k |-> "none"]
JStr(s) == [k |-> "str", s |-> s]
JInt(n) == [k |-> "int", n |-> n]
JList(e) == [k |-> "list", e |-> e]
JDict(f) == [k |-> "dict", f |-> f]
JTrue == [k |-> "bool", b |-> TRUE]

\* A str of one word.
W(word) == JStr(<<word>>)

IsDict(v) == v.k = "dict"
IsList(v) == v.k = "list"
IsStr(v) == v.k = "str"

\* bool(v)
Truthy(v) ==
    CASE v.k = "none" -> FALSE
      [] v.k = "str" -> v.s # <<>>
      [] v.k = "int" -> v.n # 0
      [] v.k = "bool" -> v.b
      [] v.k \in {"list", "set"} -> v.e # <<>>
      [] v.k = "dict" -> DOMAIN v.f # {}

\* key in d
Has(d, key) == key \in DOMAIN d.f
\* d.get(key, default) and d.get(key) of a dict d.
GetOr(d, key, default) == IF Has(d, key) THEN d.f[key] ELSE default
Get(d, key) == GetOr(d, key, JNone)
\* d[key] = v
Set(d, key, v) == JDict(Put(d.f, key, v))
\* d.pop(key)
Without(d, key) == JDict([x \in DOMAIN d.f \ {key} |-> d.f[x]])
\* a or b
Or(a, b) == IF Truthy(a) THEN a ELSE b

\* The keys of the Document IR in the order its producer writes them: the
\* order in which a dict is iterated.
KeyOrder ==
    <<"type", "chapterId", "anchor", "level", "tone", "title", "text",
      "marks", "inlines", "blocks", "items", "rows", "cells", "header", "widgetId",
      "widgetType", "props", "data", "dataRef", "labels", "datasets", "options",
      "scales", "label", "value", "foo", "toc", "customEntries", "hero", "kpis",
      "summary", "highlights", "actions", "delta", "subtitle", "tagline", "description",
      "display", "word", "weight", "category", "xrefs">>

\* list(d.keys())
Keys(d) == SelectSeq(KeyOrder, LAMBDA key : Has(d, key))

(***************************************************************************)
(* json.loads and ast.literal_eval on the token alphabet: objects, arrays, *)
(* quoted strings with backslash escapes and decimal numbers.  The literal *)
(* decoder also accepts single-quoted strings and a trailing comma.        *)
(* A result is [ok, v, i]: success, the value, the next position.          *)
(***************************************************************************)
ParseFail == [ok |-> FALSE, v |-> JNone, i |-> 0]

DigitValue ==
    [d \in {"0", "1", "2", "3", "4", "5", "6", "7", "8", "9"} |->
        CASE d = "0" -> 0 [] d = "1" -> 1 [] d = "2" -> 2 [] d = "3" -> 3
          [] d = "4" -> 4 [] d = "5" -> 5 [] d = "6" -> 6 [] d = "7" -> 7
          [] d = "8" -> 8 [] d = "9" -> 9]

\* The characters that are no part of a name.
Punctuation ==
    {"{", "}", "[", "]", ",", ":", "\"", "'", "\\", ".", "-", "/", "*", "<", ">", "&", "#"}

IsName(token) == token \notin Punctuation \cup WhiteSpace \cup DOMAIN DigitValue

RECURSIVE SkipWs(_, _)
SkipWs(s, i) == IF i <= Len(s) /\ s[i] \in WhiteSpace THEN SkipWs(s, i + 1) ELSE i

RECURSIVE ParseString(_, _, _, _)
\* The characters of a string literal from position i up to the quote q.
ParseString(s, i, q, acc) ==
    IF i > Len(s) THEN ParseFail
    ELSE IF s[i] = q THEN [ok |-> TRUE, v |-> JStr(acc), i |-> i + 1]
    ELSE IF s[i] = "\\"
    THEN IF i + 1 > Len(s) THEN ParseFail
         ELSE ParseString(s, i + 2, q, Append(acc, s[i + 1]))
    ELSE ParseString(s, i + 1, q, Append(acc, s[i]))

RECURSIVE ParseNumber(_, _, _)
ParseNumber(s, i, n) ==
    IF i <= Len(s) /\ s[i] \in DOMAIN DigitValue
    THEN ParseNumber(s, i + 1, 10 * n + DigitValue[s[i]])
    ELSE [ok |-> TRUE, v |-> JInt(n), i |-> i]

RECURSIVE KeyOf(_)
\* The characters of a text as one string.
KeyOf(tokens) == IF tokens = <<>> THEN "" ELSE Head(tokens) \o KeyOf(Tail(tokens))

RECURSIVE ParseValue(_, _, _), ParseElements(_, _, _, _), ParseBraces(_, _, _, _, _)

\* The syntax tree of the value at position i0.  Besides the values, a tree
\* holds names ([k |-> "name"]), displays of key-value pairs ("pairs") and,
\* for the literal decoder, set displays ("set").
ParseValue(s, i0, lax) ==
    LET i == SkipWs(s, i0)
    IN  IF i > Len(s) THEN ParseFail
        ELSE IF s[i] = "{" THEN ParseBraces(s, i + 1, lax, <<>>, "start")
        ELSE IF s[i] = "[" THEN ParseElements(s, i + 1, lax, <<>>)
        ELSE IF s[i] = "\"" \/ (lax /\ s[i] = "'") THEN ParseString(s, i + 1, s[i], <<>>)
        ELSE IF s[i] = (IF lax THEN "None" ELSE "null")
        THEN [ok |-> TRUE, v |-> JNone, i |-> i + 1]
        ELSE IF s[i] \in DOMAIN DigitValue
        THEN IF s[i] = "0" /\ i < Len(s) /\ s[i + 1] \in DOMAIN DigitValue
             THEN ParseFail
             ELSE ParseNumber(s, i, 0)
        ELSE IF lax /\ IsName(s[i]) THEN [ok |-> TRUE, v |-> [k |-> "name"], i |-> i + 1]
        ELSE ParseFail

\* The elements of an array after "[" or after a comma; acc holds the
\* elements read so far.
ParseElements(s, i0, lax, acc) ==
    LET i == SkipWs(s, i0)
        r == ParseValue(s, i, lax)
        j == SkipWs(s, r.i)
    IN  IF i > Len(s) THEN ParseFail
        ELSE IF s[i] = "]" /\ (acc = <<>> \/ lax)
        THEN [ok |-> TRUE, v |-> JList(acc), i |-> i + 1]
        ELSE IF ~r.ok \/ j > Len(s) THEN ParseFail
        ELSE IF s[j] = "," THEN ParseElements(s, j + 1, lax, Append(acc, r.v))
        ELSE IF s[j] = "]" THEN [ok |-> TRUE, v |-> JList(Append(acc, r.v)), i |-> j + 1]
        ELSE ParseFail

\* What follows "{" or a comma inside braces; acc holds the pairs (mode
\* "dict") or the elements (mode "set") read so far.  JSON knows only pairs
\* whose key is a string.
ParseBraces(s, i0, lax, acc, mode) ==
    LET i == SkipWs(s, i0)
        key == IF lax \/ s[i] = "\"" THEN ParseValue(s, i, lax) ELSE ParseFail
        c == SkipWs(s, key.i)
        r == ParseValue(s, c + 1, lax)
        j == SkipWs(s, r.i)
        closed(kind, e, at) == [ok |-> TRUE, v |-> [k |-> kind, e |-> e], i |-> at + 1]
    IN  IF i > Len(s) THEN ParseFail
        ELSE IF s[i] = "}" /\ (acc = <<>> \/ lax)
        THEN closed(IF mode = "set" THEN "set" ELSE "pairs", acc, i)
        ELSE IF ~key.ok \/ c > Len(s) THEN ParseFail
        ELSE IF s[c] = ":" /\ mode # "set"
        THEN IF ~r.ok \/ j > Len(s) THEN ParseFail
             ELSE IF s[j] = "," THEN ParseBraces(s, j + 1, lax, Append(acc, <<key.v, r.v>>), "dict")
             ELSE IF s[j] = "}" THEN closed("pairs", Append(acc, <<key.v, r.v>>), j)
             ELSE ParseFail
        ELSE IF lax /\ mode # "dict" /\ s[c] = ","
        THEN ParseBraces(s, c + 1, lax, Append(acc, key.v), "set")
        ELSE IF lax /\ mode # "dict" /\ s[c] = "}" THEN closed("set", Append(acc, key.v), c)
        ELSE ParseFail

\* hash(v) raises TypeError for a list, a dict and a set.
Unhashable(v) == v.k \in {"list", "dict", "set"}

\* A key of a decoded dict as a string.
KeyName(key) ==
    CASE key.k = "str" -> KeyOf(key.s)
      [] key.k = "int" -> KeyOf(Decimal(key.n))
      [] OTHER -> "None"

RECURSIVE Convert(_), ConvertEach(_, _, _), ConvertSet(_, _, _), ConvertPairs(_, _, _)

\* The value of a syntax tree, built left to right: [st, v] with st "ok",
\* "value" (ValueError: a name is no literal) or "type" (TypeError: an
\* unhashable set element or dict key).
Convert(tree) ==
    CASE tree.k = "name" -> [st |-> "value", v |-> JNone]
      [] tree.k = "list" -> ConvertEach(tree.e, 1, <<>>)
      [] tree.k = "set" -> ConvertSet(tree.e, 1, <<>>)
      [] tree.k = "pairs" -> ConvertPairs(tree.e, 1, <<>>)
      [] OTHER -> [st |-> "ok", v |-> tree]

ConvertEach(e, i, acc) ==
    IF i > Len(e) THEN [st |-> "ok", v |-> JList(acc)]
    ELSE LET r == Convert(e[i])
         IN  IF r.st # "ok" THEN r ELSE ConvertEach(e, i + 1, Append(acc, r.v))

ConvertSet(e, i, acc) ==
    IF i > Len(e) THEN [st |-> "ok", v |-> [k |-> "set", e |-> acc]]
    ELSE LET r == Convert(e[i])
         IN  IF r.st # "ok" THEN r
             ELSE IF Unhashable(r.v) THEN [st |-> "type", v |-> JNone]
             ELSE ConvertSet(e, i + 1, Append(acc, r.v))

ConvertPairs(e, i, acc) ==
    IF i > Len(e) THEN [st |-> "ok", v |-> JDict(acc)]
    ELSE LET key == Convert(e[i][1])
             value == Convert(e[i][2])
         IN  IF key.st # "ok" THEN key
             ELSE IF value.st # "ok" THEN value
             ELSE IF Unhashable(key.v) THEN [st |-> "type", v |-> JNone]
             ELSE ConvertPairs(e, i + 1, Put(acc, KeyName(key.v), value.v))

\* The whole of s as one value: [st, v], st = "syntax" when s is no value.
Decode(s, lax) ==
    LET r == ParseValue(s, 1, lax)
    IN  IF r.ok /\ SkipWs(s, r.i) = Len(s) + 1
        THEN Convert(r.v) ELSE [st |-> "syntax", v |-> JNone]

\* json.loads(s): st # "ok" stands for JSONDecodeError.
json_loads(s) == Decode(s, FALSE)
\* ast.literal_eval(s): st "syntax" and "value" stand for SyntaxError and
\* ValueError, st "type" for TypeError.
literal_eval(s) == Decode(s, TRUE)

(***************************************************************************)
(* Structure Repair: _prepare_chapters and what it calls.  An operator     *)
(* that can raise returns a record with ok = FALSE when it raises.         *)
(***************************************************************************)
_coerce_block_dict(payload) ==
    LET block_type == Get(payload, "type")
        asTable == Set(payload, "type", W("table"))
        block ==
            IF Truthy(block_type) THEN payload
            ELSE IF Has(payload, "widgetId") THEN Set(payload, "type", W("widget"))
            ELSE IF Has(payload, "rows") \/ Has(payload, "cells")
            THEN IF ~Has(payload, "rows") /\ IsList(Get(payload, "cells"))
                 THEN Set(Without(asTable, "cells"), "rows",
                          JList(<<JDict([cells |-> Get(payload, "cells")])>>))
                 ELSE asTable
            ELSE IF Has(payload, "items") THEN Set(payload, "type", W("list"))
            ELSE payload
    IN  IF ~IsDict(payload) THEN JNone
        ELSE IF Truthy(Get(block, "type")) THEN block ELSE JNone

RECURSIVE _collect_blocks_from_payload(_), CollectEach(_, _, _), CollectCells(_, _, _)

CollectEach_next(items, i, collected, r) ==
    IF ~r.ok THEN r ELSE CollectEach(items, i + 1, collected \o r.blocks)

\* [ok, blocks]: the loop "for item in items: collected.extend(collect(item))"
\* from item i on.
CollectEach(items, i, collected) ==
    IF i > Len(items) THEN [ok |-> TRUE, blocks |-> collected]
    ELSE CollectEach_next(items, i, collected, _collect_blocks_from_payload(items[i]))

CollectCells_next(cells, i, collected, r) ==
    IF ~r.ok THEN r ELSE CollectCells(cells, i + 1, collected \o r.blocks)

\* The loop over payload["cells"]: cell.get raises for a cell that is not a dict.
CollectCells(cells, i, collected) ==
    IF i > Len(cells) THEN [ok |-> TRUE, blocks |-> collected]
    ELSE IF ~IsDict(cells[i]) THEN [ok |-> FALSE, blocks |-> <<>>]
    ELSE CollectCells_next(cells, i, collected, _collect_blocks_from_payload(Get(cells[i], "blocks")))

_collect_blocks_from_payload_block_list(payload) ==
    Get(payload, "blocks")

_collect_blocks_from_payload_block_type(payload) ==
    Get(payload, "type")

_collect_blocks_from_payload_cells(payload) ==
    Get(payload, "cells")

_collect_blocks_from_payload_items(payload) ==
    Get(payload, "items")

_collect_blocks_from_payload_coerced(payload) ==
    _coerce_block_dict(payload)

_collect_blocks_from_payload(payload) ==
    IF IsDict(payload)
    THEN IF IsList(_collect_blocks_from_payload_block_list(payload)) /\ ~Truthy(_collect_blocks_from_payload_block_type(payload))
         THEN CollectEach(_collect_blocks_from_payload_block_list(payload).e, 1, <<>>)
         ELSE IF Truthy(_collect_blocks_from_payload_cells(payload)) /\ ~Truthy(_collect_blocks_from_payload_block_type(payload))
         THEN \* iterating a str or a dict yields str, an int is not iterable
              IF IsList(_collect_blocks_from_payload_cells(payload)) THEN CollectCells(_collect_blocks_from_payload_cells(payload).e, 1, <<>>)
              ELSE [ok |-> FALSE, blocks |-> <<>>]
         ELSE IF Truthy(_collect_blocks_from_payload_items(payload)) /\ ~Truthy(_collect_blocks_from_payload_block_type(payload))
         THEN \* the characters of a str and the keys of a dict hold no block
              IF IsList(_collect_blocks_from_payload_items(payload)) THEN CollectEach(_collect_blocks_from_payload_items(payload).e, 1, <<>>)
              ELSE [ok |-> ~(_collect_blocks_from_payload_items(payload).k = "int"), blocks |-> <<>>]
         ELSE [ok |-> TRUE,
               blocks |-> IF (Truthy(_collect_blocks_from_payload_block_type(payload)) \/ Truthy(Get(payload, "widgetId"))
                              \/ Truthy(Get(payload, "rows"))) /\ Truthy(_collect_blocks_from_payload_coerced(payload))
                          THEN <<_collect_blocks_from_payload_coerced(payload)>> ELSE <<>>]
    ELSE IF IsList(payload) THEN CollectEach(payload.e, 1, <<>>)
    ELSE [ok |-> TRUE, blocks |-> <<>>]

\* The first candidate the decoder accepts or raises on, 0 when there is none.
FirstDecoded(results) ==
    LET hits == {i \in 1..Len(results) : results[i].st \in {"ok", "type"}}
    IN  IF hits = {} THEN 0 ELSE CHOOSE i \in hits : \A j \in hits : i <= j

_decode_embedded_block_payload_collect(payload) ==
    IF payload.st = "none" THEN [ok |-> TRUE, blocks |-> <<>>]
    ELSE IF payload.st = "type" THEN [ok |-> FALSE, blocks |-> <<>>]
    ELSE _collect_blocks_from_payload(payload.v)

_decode_embedded_block_payload_chosen(strict, lax) ==
    _decode_embedded_block_payload_collect(IF FirstDecoded(strict) # 0 THEN strict[FirstDecoded(strict)]
            ELSE IF FirstDecoded(lax) # 0 THEN lax[FirstDecoded(lax)]
            ELSE [st |-> "none", v |-> JNone])

_decode_embedded_block_payload_attempts(decode_targets) ==
    _decode_embedded_block_payload_chosen([i \in 1..Len(decode_targets) |-> json_loads(decode_targets[i])],
           [i \in 1..Len(decode_targets) |-> literal_eval(decode_targets[i])])

_decode_embedded_block_payload_decode(stripped) ==
    IF stripped = <<>> \/ stripped[1] \notin {"{", "["}
    THEN [ok |-> TRUE, blocks |-> <<>>]
    ELSE _decode_embedded_block_payload_attempts(IF stripped[1] # "[" THEN <<stripped, <<"[">> \o stripped \o <<"]">>>>
                  ELSE <<stripped>>)

\* [ok, blocks]: blocks = <<>> stands for the None the code returns.
_decode_embedded_block_payload(raw) ==
    _decode_embedded_block_payload_decode(Strip(raw))

RECURSIVE traverse(_), TraverseKeys(_, _, _, _), TraverseItems(_, _, _)

TraverseKeys_text(node, keys, i, extracted, key, decoded) ==
    IF ~decoded.ok THEN [ok |-> FALSE, node |-> node, extracted |-> extracted]
    ELSE IF decoded.blocks # <<>>
    THEN TraverseKeys(Set(node, key, JStr(<<>>)), keys, i + 1,
                      extracted \o decoded.blocks)
    ELSE TraverseKeys(node, keys, i + 1, extracted)

TraverseKeys_other(node, keys, i, extracted, key, r) ==
    IF ~r.ok THEN [ok |-> FALSE, node |-> node, extracted |-> extracted]
    ELSE TraverseKeys(Set(node, key, r.node), keys, i + 1, extracted \o r.extracted)

TraverseKeys_step(node, keys, i, extracted, key, value) ==
    IF key = "text" /\ IsStr(value)
    THEN TraverseKeys_text(node, keys, i, extracted, key, _decode_embedded_block_payload(value.s))
    ELSE TraverseKeys_other(node, keys, i, extracted, key, traverse(value))

\* [ok, node, extracted]: the node as traverse leaves it and the blocks it
\* appended to extracted, for the keys of a dict from key i on.
TraverseKeys(node, keys, i, extracted) ==
    IF i > Len(keys) THEN [ok |-> TRUE, node |-> node, extracted |-> extracted]
    ELSE TraverseKeys_step(node, keys, i, extracted, keys[i], node.f[keys[i]])

TraverseItems_next(node, i, extracted, r) ==
    IF ~r.ok THEN [ok |-> FALSE, node |-> node, extracted |-> extracted]
    ELSE TraverseItems(JList([node.e EXCEPT ![i] = r.node]), i + 1,
                       extracted \o r.extracted)

\* The same for the items of a list from item i on.
TraverseItems(node, i, extracted) ==
    IF i > Len(node.e) THEN [ok |-> TRUE, node |-> node, extracted |-> extracted]
    ELSE TraverseItems_next(node, i, extracted, traverse(node.e[i]))

traverse(node) ==
    IF IsDict(node) THEN TraverseKeys(node, Keys(node), 1, <<>>)
    ELSE IF IsList(node) THEN TraverseItems(node, 1, <<>>)
    ELSE [ok |-> TRUE, node |-> node, extracted |-> <<>>]

\* [ok, node, extracted]: block as it is left, and the blocks returned.
_extract_embedded_blocks(block) == traverse(block)

RECURSIVE _expand_blocks_in_place(_), ExpandLoop(_, _, _)

\* A plausible slip: a block that held serialized blocks is replaced by
\* them instead of being followed by them.
ExtendReplacing(expanded, block, extras) == expanded \o extras

\* expanded.append(block) and, of a block that held serialized blocks,
\* expanded.extend(the blocks extracted from it).
Extend(expanded, block, extras) == Append(expanded, block) \o extras

ExpandExtrasFirst(blocks, i, expanded, r, extras) ==
    IF r.extracted = <<>> THEN ExpandLoop(blocks, i + 1, Extend(expanded, r.node, <<>>))
    ELSE IF ~extras.ok THEN extras
    ELSE ExpandLoop(blocks, i + 1, (expanded \o extras.blocks) \o <<r.node>>)

ExpandLoop_after(blocks, i, expanded, r, extras) ==
    IF r.extracted = <<>> THEN ExpandLoop(blocks, i + 1, Extend(expanded, r.node, <<>>))
    ELSE IF ~extras.ok THEN extras
    ELSE ExpandLoop(blocks, i + 1, Extend(expanded, r.node, extras.blocks))

ExpandLoop_step(blocks, i, expanded, r) ==
    IF ~r.ok THEN [ok |-> FALSE, blocks |-> <<>>]
    ELSE ExpandLoop_after(blocks, i, expanded, r, _expand_blocks_in_place(r.extracted))

\* [ok, blocks]: the loop of _expand_blocks_in_place from block i on.
ExpandLoop(blocks, i, expanded) ==
    IF i > Len(blocks) THEN [ok |-> TRUE, blocks |-> expanded]
    ELSE ExpandLoop_step(blocks, i, expanded, _extract_embedded_blocks(blocks[i]))

_expand_blocks_in_place(blocks) == ExpandLoop(blocks, 1, <<>>)

(***************************************************************************)
(* Text helpers of the renderer.  HTML is text: a sequence of tokens.      *)
(***************************************************************************)
\* html.escape(text, quote)
HtmlEscape(text, quote) ==
    [i \in 1..Len(text) |->
        CASE text[i] = "&" -> "&amp;"
          [] text[i] = "<" -> "&lt;"
          [] text[i] = ">" -> "&gt;"
          [] quote /\ text[i] = "\"" -> "&quot;"
          [] quote /\ text[i] = "'" -> "&#x27;"
          [] OTHER -> text[i]]

\* The characters of a string inside a JSON string literal.
JsonEscape(text) ==
    Concat([i \in 1..Len(text) |->
               IF text[i] \in {"\"", "\\"} THEN <<"\\", text[i]>> ELSE <<text[i]>>])

\* sep.join(parts)
JoinWith(parts, sep) ==
    Concat([i \in 1..Len(parts) |-> IF i > 1 THEN sep \o parts[i] ELSE parts[i]])

RECURSIVE json_dumps(_)
\* json.dumps(value, ensure_ascii=False)
json_dumps(value) ==
    CASE value.k = "none" -> <<"null">>
      [] value.k = "int" -> Decimal(value.n)
      [] value.k = "bool" -> IF value.b THEN <<"true">> ELSE <<"false">>
      [] value.k = "str" -> <<"\"">> \o JsonEscape(value.s) \o <<"\"">>
      [] value.k = "list" ->
             <<"[">> \o JoinWith([i \in 1..Len(value.e) |-> json_dumps(value.e[i])],
                                 <<",", " ">>)
             \o <<"]">>
      [] value.k = "dict" ->
             LET keys == Keys(value)
             IN  <<"{">> \o JoinWith([i \in 1..Len(keys) |->
                                         <<"\"", keys[i], "\"", ":", " ">>
                                         \o json_dumps(value.f[keys[i]])],
                                     <<",", " ">>)
                 \o <<"}">>

_safe_text(value) ==
    CASE value.k = "none" -> <<>>
      [] value.k = "str" -> value.s
      [] value.k = "int" -> Decimal(value.n)
      [] OTHER -> json_dumps(value)

_escape_html(value) == HtmlEscape(_safe_text(value), FALSE)

\* The escaped text as one attribute value (the model's texts hold no line break).
_escape_attr(value) == KeyOf(HtmlEscape(_safe_text(value), TRUE))

\* text.startswith(prefix)
StartsWith(text, prefix) == Len(text) >= Len(prefix) /\ SubSeq(text, 1, Len(prefix)) = prefix

\* A str value as a dict key or attribute; "" for a value that is no str.
StrOf(v) == IF IsStr(v) THEN KeyOf(v.s) ELSE ""

\* block.get("type") as a name; "" when it is no str.
TypeOf(block) == StrOf(Get(block, "type"))

(***************************************************************************)
(* The Heading Labeler and the TOC builder on prepared chapters.           *)
(***************************************************************************)
\* What _compute_heading_labels reads of a chapter: its anchor and, of each
\* block, type, level, anchor and text.
LabelViewOf(chapter) ==
    LET blocks == Get(chapter, "blocks").e
    IN  [anchor |-> StrOf(Get(chapter, "anchor")),
         blocks |-> [j \in 1..Len(blocks) |->
                        [type |-> TypeOf(blocks[j]),
                         level |-> GetOr(blocks[j], "level", JInt(2)).n,
                         anchor |-> StrOf(Get(blocks[j], "anchor")),
                         text |-> _safe_text(GetOr(blocks[j], "text", JStr(<<>>)))]]]

LabelsRaise_block(chapters, c, j) ==
    Get(chapters[c], "blocks").e[j]

\* block.get raises for a block that is not a dict, text.lstrip for a heading
\* text that is neither str nor falsy.
LabelsRaise(chapters) ==
    \E c \in 1..Len(chapters) : \E j \in 1..Len(Get(chapters[c], "blocks").e) :
        \/ ~IsDict(LabelsRaise_block(chapters, c, j))
        \/ /\ TypeOf(LabelsRaise_block(chapters, c, j)) = "heading"
           /\ Truthy(Or(Get(LabelsRaise_block(chapters, c, j), "anchor"), Get(chapters[c], "anchor")))
           /\ Truthy(Get(LabelsRaise_block(chapters, c, j), "text")) /\ ~IsStr(Get(LabelsRaise_block(chapters, c, j), "text"))

\* [ok, map]: the label map of generic chapters.
HeadingLabelsOf(chapters) ==
    IF LabelsRaise(chapters) THEN [ok |-> FALSE, map |-> <<>>]
    ELSE [ok |-> TRUE,
          map |-> _compute_heading_labels([c \in 1..Len(chapters) |-> LabelViewOf(chapters[c])])]

\* The dict comprehension of render: chapterId -> anchor.
ChapterAnchorMap(chapters) ==
    LET with == {c \in 1..Len(chapters) :
                    Truthy(Get(chapters[c], "chapterId")) /\ Truthy(Get(chapters[c], "anchor"))}
    IN  [id \in {StrOf(Get(chapters[c], "chapterId")) : c \in with} |->
            LET last == CHOOSE c \in with :
                            /\ StrOf(Get(chapters[c], "chapterId")) = id
                            /\ \A d \in with : StrOf(Get(chapters[d], "chapterId")) = id => d <= c
            IN  StrOf(Get(chapters[last], "anchor"))]

_validate_toc_anchor(r, anchor, chapters) ==
    \/ \E id \in DOMAIN r.chapter_anchor_map : r.chapter_anchor_map[id] = anchor
    \/ anchor \in DOMAIN r.heading_label_map
    \/ \E c \in 1..Len(chapters) :
          \/ StrOf(Get(chapters[c], "anchor")) = anchor
          \/ \E j \in 1..Len(Get(chapters[c], "blocks").e) :
                StrOf(Get(Get(chapters[c], "blocks").e[j], "anchor")) = anchor

RECURSIVE CustomEntries(_, _, _, _)
\* The loop over toc.customEntries from entry i on.  An entry without an
\* anchor is skipped; an entry whose anchor is not found is only logged.
CustomEntries(r, custom, chapters, i) ==
    IF i > Len(custom) THEN <<>>
    ELSE LET entry == custom[i]
             own == Get(entry, "anchor")
             id == StrOf(Get(entry, "chapterId"))
             anchor == IF Truthy(own) THEN StrOf(own)
                       ELSE IF id \in DOMAIN r.chapter_anchor_map THEN r.chapter_anchor_map[id]
                       ELSE ""
             description == Get(entry, "description")
         IN  (IF anchor = "" THEN <<>>
              ELSE <<[level |-> GetOr(entry, "level", JInt(2)).n,
                      text |-> _safe_text(Or(Or(Get(entry, "display"), Get(entry, "title")),
                                             JStr(<<>>))),
                      anchor |-> anchor,
                      description |-> IF Truthy(description)
                                      THEN CleanText(description.s) ELSE <<>>]>>)
             \o CustomEntries(r, custom, chapters, i + 1)

RECURSIVE HeadingEntries(_, _, _)
HeadingEntries_blocks(chapter) ==
    Get(chapter, "blocks").e

HeadingEntries_block(chapter, j) ==
    HeadingEntries_blocks(chapter)[j]

HeadingEntries_anchor(chapter, j) ==
    StrOf(Or(Or(Get(HeadingEntries_block(chapter, j), "anchor"), Get(chapter, "anchor")), JStr(<<>>)))

HeadingEntries_mapped(r, chapter, j) ==
    HeadingEntries_anchor(chapter, j) \in DOMAIN r.heading_label_map

\* The entries the headings of one chapter give, from block j on.
HeadingEntries(r, chapter, j) ==
    IF j > Len(HeadingEntries_blocks(chapter)) THEN <<>>
    ELSE (IF TypeOf(HeadingEntries_block(chapter, j)) = "heading" /\ HeadingEntries_anchor(chapter, j) # ""
          THEN <<[level |-> GetOr(HeadingEntries_block(chapter, j), "level", JInt(2)).n,
                  text |-> IF HeadingEntries_mapped(r, chapter, j) /\ r.heading_label_map[HeadingEntries_anchor(chapter, j)].display # <<>>
                           THEN r.heading_label_map[HeadingEntries_anchor(chapter, j)].display
                           ELSE _safe_text(GetOr(HeadingEntries_block(chapter, j), "text", JStr(<<>>))),
                  anchor |-> HeadingEntries_anchor(chapter, j),
                  description |-> <<>>]>>
          ELSE <<>>)
         \o HeadingEntries(r, chapter, j + 1)

_collect_toc_entries_toc_config(r) ==
    Or(Get(r.metadata, "toc"), JDict(<<>>))

_collect_toc_entries_custom_entries(r) ==
    Get(_collect_toc_entries_toc_config(r), "customEntries")

\* [ok, entries]: a description of <<>> stands for None.
_collect_toc_entries(r, chapters) ==
    IF Truthy(_collect_toc_entries_custom_entries(r))
    THEN IF ~IsList(_collect_toc_entries_custom_entries(r))
            \/ \E i \in 1..Len(_collect_toc_entries_custom_entries(r).e) : ~IsDict(_collect_toc_entries_custom_entries(r).e[i])
         THEN [ok |-> FALSE, entries |-> <<>>]
         ELSE [ok |-> TRUE, entries |-> CustomEntries(r, _collect_toc_entries_custom_entries(r).e, chapters, 1)]
    ELSE IF \E c \in 1..Len(chapters) : \E j \in 1..Len(Get(chapters[c], "blocks").e) :
                ~IsDict(Get(chapters[c], "blocks").e[j])
    THEN [ok |-> FALSE, entries |-> <<>>]
    ELSE [ok |-> TRUE,
          entries |-> Concat([c \in 1..Len(chapters) |-> HeadingEntries(r, chapters[c], 1)])]

(***************************************************************************)
(* Inline rendering: _normalize_inline_payload and _render_inline.         *)
(***************************************************************************)
INLINE_ARTIFACT_KEYS ==
    {"props", "widgetId", "widgetType", "data", "dataRef", "datasets", "labels",
     "config", "options"}

SentinelKeys == {"xrefs", "widgets", "footnotes", "errors", "metadata"}

\* "for x in v": [ok, e]; None and an int are not iterable, a str yields its
\* characters and a dict its keys.
Iterate(v) ==
    CASE v.k \in {"list", "set"} -> [ok |-> TRUE, e |-> v.e]
      [] v.k = "str" -> [ok |-> TRUE, e |-> [i \in 1..Len(v.s) |-> JStr(<<v.s[i]>>)]]
      [] v.k = "dict" -> [ok |-> TRUE, e |-> [i \in 1..Len(Keys(v)) |-> W(Keys(v)[i])]]
      [] OTHER -> [ok |-> FALSE, e |-> <<>>]

RECURSIVE ResolveText(_, _)
ResolveText_next(text_value, marks, more) ==
    IF ~more.ok THEN [ok |-> FALSE, text |-> JNone, marks |-> marks]
    ELSE IF Has(text_value, "text")
    THEN ResolveText(Get(text_value, "text"), marks \o more.e)
    ELSE [ok |-> TRUE, text |-> JStr(json_dumps(text_value)), marks |-> marks \o more.e]

\* The while loop of _normalize_inline_payload: [ok, text, marks].
ResolveText(text_value, marks) ==
    IF ~IsDict(text_value) THEN [ok |-> TRUE, text |-> text_value, marks |-> marks]
    ELSE ResolveText_next(text_value, marks, IF Truthy(Get(text_value, "marks")) THEN Iterate(Get(text_value, "marks"))
              ELSE [ok |-> TRUE, e |-> <<>>])

_coerce_inline_payload_inline_type(payload) ==
    Get(payload, "type")

_coerce_inline_payload(payload) ==
    IF Truthy(_coerce_inline_payload_inline_type(payload)) /\ StrOf(_coerce_inline_payload_inline_type(payload)) \notin {"inline", "text"} THEN JNone
    ELSE IF ~Has(payload, "text") /\ ~Has(payload, "marks") THEN JNone
    ELSE payload

InlineFromString_same(text_value, marks) ==
    [ok |-> TRUE, text |-> text_value, marks |-> marks]

InlineFromString_merged(text_value, marks, nested_text, nested_marks) ==
    [ok |-> TRUE,
     text |-> IF nested_text.k # "none" THEN nested_text ELSE text_value,
     marks |-> IF IsList(nested_marks) THEN marks \o nested_marks.e ELSE marks]

InlineFromString_coerced(text_value, marks, payload, inline_payload) ==
    IF Truthy(inline_payload)
    THEN InlineFromString_merged(text_value, marks, Get(inline_payload, "text"), Get(inline_payload, "marks"))
    ELSE IF DOMAIN payload.f \cap INLINE_ARTIFACT_KEYS # {}
    THEN [InlineFromString_same(text_value, marks) EXCEPT !.text = JStr(<<>>)]
    ELSE InlineFromString_same(text_value, marks)

InlineFromString_resolved(text_value, marks, payload) ==
    IF ~IsDict(payload) THEN InlineFromString_same(text_value, marks)
    ELSE IF DOMAIN payload.f \subseteq SentinelKeys THEN [InlineFromString_same(text_value, marks) EXCEPT !.text = JStr(<<>>)]
    ELSE IF Truthy(Get(payload, "type")) /\ Get(payload, "type").k \in {"list", "dict"}
    THEN [ok |-> FALSE, text |-> JNone, marks |-> marks]
    ELSE InlineFromString_coerced(text_value, marks, payload, _coerce_inline_payload(payload))

InlineFromString_decoded(text_value, marks, strict, lax) ==
    IF strict.st # "ok" /\ lax.st = "type"
    THEN [ok |-> FALSE, text |-> JNone, marks |-> marks]
    ELSE InlineFromString_resolved(text_value, marks, IF strict.st = "ok" THEN strict.v
                  ELSE IF lax.st = "ok" THEN lax.v ELSE JNone)

InlineFromString_decode(text_value, marks, stripped) ==
    IF stripped = <<>> \/ stripped[1] # "{" \/ stripped[Len(stripped)] # "}" THEN InlineFromString_same(text_value, marks)
    ELSE InlineFromString_decoded(text_value, marks, json_loads(stripped), literal_eval(stripped))

\* The text a str that looks like a serialized object stands for:
\* [ok, text, marks].
InlineFromString(text_value, marks) ==
    InlineFromString_decode(text_value, marks, Strip(text_value.s))

_normalize_inline_payload_text_of(text) ==
    CASE text.k = "none" -> JStr(<<>>)
      [] text.k = "int" -> JStr(Decimal(text.n))
      [] text.k = "str" -> text
      [] OTHER -> JStr(json_dumps(text))

_normalize_inline_payload_unwrapped(r) ==
    IF ~r.ok THEN [ok |-> FALSE, text |-> JNone, marks |-> <<>>]
    ELSE InlineFromString(_normalize_inline_payload_text_of(r.text), r.marks)

_normalize_inline_payload_with(run, own) ==
    IF ~own.ok THEN [ok |-> FALSE, text |-> JNone, marks |-> <<>>]
    ELSE _normalize_inline_payload_unwrapped(ResolveText(GetOr(run, "text", JStr(<<>>)), own.e))

\* [ok, text, marks] for a run that is a dict.
_normalize_inline_payload(run) ==
    _normalize_inline_payload_with(run, Iterate(Or(Get(run, "marks"), JList(<<>>))))

(***************************************************************************)
(* The Inline Resolver on its own: runs whose text is a serialized object  *)
(* with or without text, marks, type and a sentinel key, and with up to    *)
(* MaxOwnMarks marks of the run's own.                                     *)
(***************************************************************************)
MaxOwnMarks == 1

Absent == [k |-> "absent"]
WithField(d, key, v) == IF v.k = "absent" THEN d ELSE Set(d, key, v)

BoldMark == JDict([type |-> W("bold")])
ItalicMark == JDict([type |-> W("italic")])

InlineObjects ==
    {WithField(WithField(WithField(WithField(JDict(<<>>), "text", t), "marks", m),
                         "type", ty), "xrefs", x) :
        t \in {Absent, W("hi"), JInt(5), JNone, JList(<<W("a")>>)},
        m \in {Absent, JList(<<BoldMark>>)},
        ty \in {Absent, W("inline"), W("text"), W("widget")},
        x \in {Absent, JList(<<JInt(1), JInt(2)>>)}}
    \cup {JDict([foo |-> JInt(1)]), JDict([props |-> JDict(<<>>)]),
          JDict([text |-> W("hi"), type |-> JList(<<W("text")>>)])}

\* '{"xrefs": [1,2]}', '{"text":"hi","marks":[{"type":"bold"}]}' and
\* "{'text': 'hi'}"
SerializedXrefs == <<"{", "\"", "xrefs", "\"", ":", " ", "[", "1", ",", "2", "]", "}">>
SerializedBold ==
    <<"{", "\"", "text", "\"", ":", "\"", "hi", "\"", ",", "\"", "marks", "\"", ":", "[",
      "{", "\"", "type", "\"", ":", "\"", "bold", "\"", "}", "]", "}">>
SerializedLiteral == <<"{", "'", "text", "'", ":", " ", "'", "hi", "'", "}">>

InlineInputs(maxOwnMarks) ==
    {JDict([text |-> JStr(text), marks |-> JList(own)]) :
        text \in {json_dumps(object) : object \in InlineObjects}
                 \cup {SerializedXrefs, SerializedBold, SerializedLiteral},
        own \in SeqsUpTo({ItalicMark}, maxOwnMarks)}

InlineIdle == inlineIn = JNone /\ inlineOut = [done |-> FALSE, ok |-> TRUE, text |-> JNone, marks |-> <<>>, html |-> <<>>]

NormalizeInline_returned(result) ==
    [done |-> TRUE, ok |-> result.ok, text |-> result.text, marks |-> result.marks,
     html |-> <<>>]

NormalizeInline ==
    /\ ~inlineOut.done
    /\ inlineOut' = NormalizeInline_returned(_normalize_inline_payload(inlineIn))
    /\ UNCHANGED inlineIn

MarkWrap_mark_type(mark) ==
    TypeOf(mark)

MarkWrap_href_raw(mark) ==
    Get(mark, "href")

MarkWrap_wrap(open, close) ==
    [prefix |-> open, suffix |-> close, styles |-> <<>>]

MarkWrap_style(parts) ==
    [prefix |-> <<>>, suffix |-> <<>>, styles |-> parts]

MarkWrap_font(mark, key, name) ==
    IF Truthy(Get(mark, key)) THEN << <<name, ":", " ">> \o _safe_text(Get(mark, key)) >>
    ELSE <<>>

\* The wrappers one mark adds: [prefix, suffix, styles].
MarkWrap(mark) ==
    CASE MarkWrap_mark_type(mark) = "bold" -> MarkWrap_wrap(<<"<strong>">>, <<"</strong>">>)
      [] MarkWrap_mark_type(mark) = "italic" -> MarkWrap_wrap(<<"<em>">>, <<"</em>">>)
      [] MarkWrap_mark_type(mark) = "code" -> MarkWrap_wrap(<<"<code>">>, <<"</code>">>)
      [] MarkWrap_mark_type(mark) = "highlight" -> MarkWrap_wrap(<<"<mark>">>, <<"</mark>">>)
      [] MarkWrap_mark_type(mark) = "link" ->
            IF Truthy(MarkWrap_href_raw(mark)) /\ MarkWrap_href_raw(mark) # JStr(<<"#">>)
            THEN MarkWrap_wrap(<<"<a", " ", "href=\"", _escape_attr(MarkWrap_href_raw(mark)), "\"", " ", "title=\"",
                        _escape_attr(Or(Get(mark, "title"), JStr(<<>>))), "\"", " ",
                        "target=\"_blank\"", " ", "rel=\"noopener\"", ">">>,
                      <<"</a>">>)
            ELSE MarkWrap_wrap(<<"<span class=\"broken-link\">">>, <<"</span>">>)
      [] MarkWrap_mark_type(mark) = "color" ->
            MarkWrap_style(IF Truthy(Get(mark, "value"))
                  THEN << <<"color", ":", " ">> \o _safe_text(Get(mark, "value")) >>
                  ELSE <<>>)
      [] MarkWrap_mark_type(mark) = "font" ->
            MarkWrap_style(MarkWrap_font(mark, "family", "font-family") \o MarkWrap_font(mark, "size", "font-size")
                  \o MarkWrap_font(mark, "weight", "font-weight"))
      [] MarkWrap_mark_type(mark) = "underline" -> MarkWrap_style(<< <<"text-decoration", ":", " ", "underline">> >>)
      [] MarkWrap_mark_type(mark) = "strike" -> MarkWrap_style(<< <<"text-decoration", ":", " ", "line-through">> >>)
      [] MarkWrap_mark_type(mark) = "subscript" -> MarkWrap_wrap(<<"<sub>">>, <<"</sub>">>)
      [] MarkWrap_mark_type(mark) = "superscript" -> MarkWrap_wrap(<<"<sup>">>, <<"</sup>">>)
      [] OTHER -> MarkWrap_wrap(<<>>, <<>>)

\* The positions where "**" starts in text, from cursor on.
Stars(text, cursor) ==
    {i \in cursor..(Len(text) - 1) : text[i] = "*" /\ text[i + 1] = "*"}

RECURSIVE _render_markdown_bold_fallback(_)
_render_markdown_bold_fallback_starts(text) ==
    Stars(text, 1)

_render_markdown_bold_fallback_start(text) ==
    CHOOSE i \in _render_markdown_bold_fallback_starts(text) : \A j \in _render_markdown_bold_fallback_starts(text) : i <= j

_render_markdown_bold_fallback_ends(text) ==
    Stars(text, _render_markdown_bold_fallback_start(text) + 2)

_render_markdown_bold_fallback_end(text) ==
    CHOOSE i \in _render_markdown_bold_fallback_ends(text) : \A j \in _render_markdown_bold_fallback_ends(text) : i <= j

_render_markdown_bold_fallback(text) ==
    IF _render_markdown_bold_fallback_starts(text) = {} THEN HtmlEscape(text, TRUE)
    ELSE IF _render_markdown_bold_fallback_ends(text) = {} THEN HtmlEscape(text, TRUE)
    ELSE HtmlEscape(SubSeq(text, 1, _render_markdown_bold_fallback_start(text) - 1), TRUE)
         \o <<"<strong>">> \o HtmlEscape(SubSeq(text, _render_markdown_bold_fallback_start(text) + 2, _render_markdown_bold_fallback_end(text) - 1), TRUE)
         \o <<"</strong>">>
         \o _render_markdown_bold_fallback(SubSeq(text, _render_markdown_bold_fallback_end(text) + 2, Len(text)))

_render_inline_fail ==
    [ok |-> FALSE, html |-> <<>>]

_render_inline_starred(raw) ==
    CASE raw.k = "str" -> Stars(raw.s, 1) # {}
      [] raw.k = "dict" -> Has(raw, "**")
      [] raw.k \in {"list", "set"} ->
             \E i \in 1..Len(raw.e) : raw.e[i] = JStr(<<"*", "*">>)
      [] OTHER -> FALSE

\* A plausible slip: the closing tags are joined in the order of the
\* opening tags (suffix.append in place of suffix.insert(0, ...)).
StyledClosingInOrder(text, wraps, styles) ==
    (IF styles # <<>>
     THEN <<"<span", " ", "style=\"">> \o JoinWith(styles, <<";", " ">>) \o <<"\"", ">">>
     ELSE <<>>)
    \o Concat([i \in 1..Len(wraps) |-> wraps[i].prefix])
    \o _escape_html(text)
    \o Concat([i \in 1..Len(wraps) |-> wraps[i].suffix])
    \o (IF styles # <<>> THEN <<"</span>">> ELSE <<>>)

_render_inline_styled(text, wraps, styles) ==
    (IF styles # <<>>
     THEN <<"<span", " ", "style=\"">> \o JoinWith(styles, <<";", " ">>) \o <<"\"", ">">>
     ELSE <<>>)
    \o Concat([i \in 1..Len(wraps) |-> wraps[i].prefix])
    \o _escape_html(text)
    \o Concat([i \in 1..Len(wraps) |-> wraps[Len(wraps) + 1 - i].suffix])
    \o (IF styles # <<>> THEN <<"</span>">> ELSE <<>>)

_render_inline_marked(text, wraps) ==
    _render_inline_styled(text, wraps, Concat([i \in 1..Len(wraps) |-> wraps[i].styles]))

_render_inline_math(text, value) ==
    <<"<span class=\"math-inline\">", "\\(", " ">>
    \o _escape_html(IF IsStr(value) /\ Strip(value.s) # <<>> THEN value ELSE text)
    \o <<" ", "\\)", "</span>">>

_render_inline_rendered(n, raw, maths, bad) ==
    IF ~n.ok THEN _render_inline_fail
    ELSE IF \E i \in bad : \A j \in maths : i < j THEN _render_inline_fail
    ELSE IF maths # {}
    THEN [ok |-> TRUE,
          html |-> _render_inline_math(n.text,
                        Get(n.marks[CHOOSE i \in maths : \A j \in maths : i <= j],
                            "value"))]
    ELSE IF n.marks = <<>> /\ raw.k = "int" THEN _render_inline_fail
    ELSE IF n.marks = <<>> /\ _render_inline_starred(raw)
    THEN IF IsStr(raw) THEN [ok |-> TRUE, html |-> _render_markdown_bold_fallback(raw.s)]
         ELSE _render_inline_fail
    ELSE [ok |-> TRUE,
          html |-> _render_inline_marked(n.text, [i \in 1..Len(n.marks) |-> MarkWrap(n.marks[i])])]

_render_inline_with(n, raw) ==
    _render_inline_rendered(n, raw,
             {i \in 1..Len(n.marks) : IsDict(n.marks[i]) /\ TypeOf(n.marks[i]) = "math"},
             {i \in 1..Len(n.marks) : ~IsDict(n.marks[i])})

\* [ok, html]: run.get raises for a run that is not a dict, mark.get for a
\* mark that is not a dict.
_render_inline(run) ==
    IF ~IsDict(run) THEN _render_inline_fail
    ELSE _render_inline_with(_normalize_inline_payload(run), Or(Get(run, "text"), JStr(<<>>)))

(***************************************************************************)
(* The Inline Renderer on its own: runs of the text "hi" with up to        *)
(* MaxMarks marks.                                                         *)
(***************************************************************************)
\* Bound: the most marks of a run.
MaxMarks == 3

\* bold, italic, a link, a color with and without a value, underline and
\* math.
MarkPool ==
    {BoldMark, ItalicMark,
     JDict([type |-> W("link"), href |-> W("u")]),
     JDict([type |-> W("color"), value |-> W("red")]),
     JDict([type |-> W("color")]),
     JDict([type |-> W("underline")]),
     JDict([type |-> W("math"), value |-> W("x")])}

MarkedRun(marks) == JDict([text |-> W("hi"), marks |-> JList(marks)])

MarkedRuns(maxMarks) == {MarkedRun(marks) : marks \in SeqsUpTo(MarkPool, maxMarks)}

RenderInline_returned(n, r) ==
    [done |-> TRUE, ok |-> r.ok, text |-> n.text, marks |-> n.marks, html |-> r.html]

\* _render_inline renders the run.
RenderInline ==
    /\ ~inlineOut.done
    /\ inlineOut' = RenderInline_returned(_normalize_inline_payload(inlineIn),
                                          _render_inline(inlineIn))
    /\ UNCHANGED inlineIn

(***************************************************************************)
(* Chart widgets: normalisation, validation and the wire form.             *)
(***************************************************************************)

IsChartType(widget_type) == IsStr(widget_type) /\ StartsWith(widget_type.s, <<"chart", ".", "js">>)

RECURSIVE _merge_dicts(_, _), MergeKeys(_, _, _, _)

MergeKeys(result, override, keys, i) ==
    IF i > Len(keys) THEN result
    ELSE LET value == override.f[keys[i]]
             mine == Get(result, keys[i])
         IN  MergeKeys(Set(result, keys[i],
                           IF IsDict(value) /\ IsDict(mine) THEN _merge_dicts(mine, value)
                           ELSE value),
                       override, keys, i + 1)

_merge_dicts(base, override) ==
    LET merge(result) ==
            IF ~IsDict(override) THEN result
            ELSE MergeKeys(result, override, Keys(override), 1)
    IN  merge(IF IsDict(base) THEN base ELSE JDict(<<>>))

_looks_like_chart_dataset(candidate) ==
    IsDict(candidate) /\ (IsList(Get(candidate, "labels")) \/ IsList(Get(candidate, "datasets")))

_coerce_chart_data_structure_pick(data, nested) ==
    IF nested # <<>> THEN Get(data, nested[1]) ELSE data

_coerce_chart_data_structure(data) ==
    IF ~IsDict(data) THEN JDict(<<>>)
    ELSE IF IsList(Get(data, "labels")) \/ IsList(Get(data, "datasets")) THEN data
    ELSE _coerce_chart_data_structure_pick(data, SelectSeq(<<"data", "chartData", "payload">>,
                        LAMBDA key : _looks_like_chart_dataset(Get(data, key))))

_prepare_widget_payload_typed(props, inline_type) ==
    IF IsStr(inline_type) /\ Truthy(inline_type) /\ ~Truthy(Get(props, "type"))
    THEN Set(props, "type", inline_type) ELSE props

_prepare_widget_payload_merged(props, inline_options, inline_type) ==
    _prepare_widget_payload_typed(IF IsDict(inline_options)
          THEN Set(props, "options",
                   _merge_dicts(Get(props, "options"), inline_options))
          ELSE props,
          inline_type)

_prepare_widget_payload_chart(props, raw_data, inline_options, inline_type) ==
    IF ~IsDict(props)
       /\ (IsDict(inline_options) \/ (IsStr(inline_type) /\ Truthy(inline_type)))
    THEN [ok |-> FALSE, props |-> props, data |-> JNone]
    ELSE [ok |-> TRUE,
          props |-> IF IsDict(props) THEN _prepare_widget_payload_merged(props, inline_options, inline_type)
                    ELSE props,
          data |-> _coerce_chart_data_structure(
                       Without(Without(raw_data, "options"), "type"))]

_prepare_widget_payload_payload(block, props, raw_data) ==
    IF IsChartType(Or(Get(block, "widgetType"), JStr(<<>>))) /\ IsDict(raw_data)
    THEN _prepare_widget_payload_chart(props, raw_data, Get(raw_data, "options"), Get(raw_data, "type"))
    ELSE [ok |-> TRUE, props |-> props,
          data |-> IF IsDict(raw_data) THEN raw_data ELSE JDict(<<>>)]

\* [ok, props, data]: props.get raises for props that are no dict.
_prepare_widget_payload(block) ==
    _prepare_widget_payload_payload(block, Or(Get(block, "props"), JDict(<<>>)), Get(block, "data"))

\* A plausible slip: data counts as empty only when it has no datasets at
\* all; the series of the datasets are not looked at.
EmptyWithoutDatasets(data) ==
    ~IsDict(data) \/ ~IsList(Get(data, "datasets")) \/ Get(data, "datasets").e = <<>>

_is_chart_data_empty(data) ==
    LET empty(datasets) ==
            \/ ~IsList(datasets)
            \/ datasets.e = <<>>
            \/ ~\E i \in 1..Len(datasets.e) :
                  /\ IsDict(datasets.e[i])
                  /\ IsList(Get(datasets.e[i], "data"))
                  /\ Get(datasets.e[i], "data").e # <<>>
    IN  ~IsDict(data) \/ empty(Get(data, "datasets"))

\* The labels _normalize_chart_block derives from the points of a series.
PointLabels(ds_data) ==
    LET label(i, named) ==
            IF Truthy(named) THEN JStr(_safe_text(named))
            ELSE JStr(<<"U+70B9">> \o Decimal(i))
        point(i, p) == label(i, IF IsDict(p) THEN Or(Get(p, "x"), Get(p, "label")) ELSE JNone)
    IN  [i \in 1..Len(ds_data) |-> point(i, ds_data[i])]

_normalize_chart_block_labelled(b, data_ref, datasets_ref, ds_data) ==
    IF IsDict(data_ref) /\ ~Truthy(Get(data_ref, "labels"))
       /\ IsList(datasets_ref) /\ datasets_ref.e # <<>>
       /\ IsList(ds_data) /\ ds_data.e # <<>>
    THEN Set(b, "data", Set(data_ref, "labels", JList(PointLabels(ds_data.e))))
    ELSE b

_normalize_chart_block_series(b, data_ref, datasets_ref) ==
    _normalize_chart_block_labelled(b, data_ref, datasets_ref,
             IF IsList(datasets_ref) /\ datasets_ref.e # <<>>
                /\ IsDict(datasets_ref.e[1])
             THEN Get(datasets_ref.e[1], "data") ELSE JNone)

_normalize_chart_block_labels(b, data_ref) ==
    _normalize_chart_block_series(b, data_ref, Get(data_ref, "datasets"))

_normalize_chart_block_derive(b) ==
    _normalize_chart_block_labels(b, Get(b, "data"))

_normalize_chart_block_relabel(merged, chapter_data) ==
    IF ~Truthy(Get(merged, "labels")) /\ IsList(Get(chapter_data, "labels"))
    THEN Set(merged, "labels", Get(chapter_data, "labels"))
    ELSE merged

_normalize_chart_block_fallen(chapter_context, b, data, chapter_data, fallback_ds) ==
    IF Truthy(chapter_context) /\ _is_chart_data_empty(data)
       /\ IsDict(chapter_data) /\ IsList(fallback_ds) /\ fallback_ds.e # <<>>
    THEN Set(b, "data", _normalize_chart_block_relabel(Set(data, "datasets", fallback_ds), chapter_data))
    ELSE b

_normalize_chart_block_context(chapter_context, b, chapter_data) ==
    _normalize_chart_block_derive(_normalize_chart_block_fallen(chapter_context, b, Get(b, "data"), chapter_data, Get(chapter_data, "datasets")))

_normalize_chart_block_fallback(chapter_context, b) ==
    _normalize_chart_block_context(chapter_context, b, IF IsDict(chapter_context) THEN Get(chapter_context, "data")
               ELSE JNone)

_normalize_chart_block_grounded(chapter_context, b) ==
    _normalize_chart_block_fallback(chapter_context, IF IsDict(Get(b, "data")) THEN b ELSE Set(b, "data", JDict(<<>>)))

_normalize_chart_block_scaled(chapter_context, b, props, scales) ==
    _normalize_chart_block_grounded(chapter_context, IF IsDict(scales)
         THEN Set(b, "props",
                  Set(props, "options",
                      _merge_dicts(IF IsDict(Get(props, "options"))
                                   THEN Get(props, "options") ELSE JDict(<<>>),
                                   JDict([scales |-> scales]))))
         ELSE b)

_normalize_chart_block_propped(chapter_context, b) ==
    _normalize_chart_block_scaled(chapter_context, b, Get(b, "props"), Get(b, "scales"))

\* The block as _normalize_chart_block leaves it (it changes block in place).
_normalize_chart_block(block, chapter_context) ==
    IF ~IsDict(block) THEN block
    ELSE IF TypeOf(block) # "widget" THEN block
    ELSE IF ~IsChartType(GetOr(block, "widgetType", JStr(<<>>))) THEN block
    ELSE _normalize_chart_block_propped(chapter_context, IF IsDict(Get(block, "props")) THEN block
                ELSE Set(block, "props", JDict(<<>>)))

\* The answers of the chart validator and the chart repairer for one chart:
\* is_valid, and of the repairer, which is asked only after a failed
\* validation, success, method and whether it hands back a block.  The
\* method is read only of a repair that succeeded with a block.
Verdicts ==
    [is_valid : {TRUE}, success : {FALSE}, method : {"none"}, repaired : {FALSE}]
    \cup [is_valid : {FALSE}, success : {TRUE}, method : {"local", "api", "none"},
          repaired : {TRUE}]
    \cup {[is_valid |-> FALSE, success |-> a[1], method |-> "local", repaired |-> a[2]] :
             a \in {<<FALSE, FALSE>>, <<TRUE, FALSE>>, <<FALSE, TRUE>>}}

\* The block the repairer hands back: the chart with one series of one point.
RepairedBlock(block) ==
    Set(block, "data",
        JDict([labels |-> JList(<<W("r")>>),
               datasets |-> JList(<<JDict([data |-> JList(<<JInt(1)>>)])>>)]))

\* chart_validation_stats after one chart met verdict v.
CountChart(stats, v) ==
    LET fixed == ~v.is_valid /\ v.success /\ v.repaired
    IN  [total |-> stats.total + 1,
         valid |-> stats.valid + (IF v.is_valid THEN 1 ELSE 0),
         repaired_locally |-> stats.repaired_locally
                              + (IF fixed /\ v.method = "local" THEN 1 ELSE 0),
         repaired_api |-> stats.repaired_api + (IF fixed /\ v.method = "api" THEN 1 ELSE 0),
         failed |-> stats.failed + (IF ~v.is_valid /\ ~fixed THEN 1 ELSE 0)]

_render_widget_fallback_header(ds, i) ==
    <<"<th>">> \o _escape_html(Or(Get(ds[i], "label"),
                                 JStr(<<"U+7CFB", "U+5217">> \o Decimal(i))))
    \o <<"</th>">>

_render_widget_fallback_pick(series, i) ==
    IF i <= Len(series.e) THEN series.e[i] ELSE JStr(<<>>)

_render_widget_fallback_value(ds, d, i) ==
    _render_widget_fallback_pick(Or(Get(ds[d], "data"), JList(<<>>)), i)

_render_widget_fallback_row(ls, ds, i) ==
    <<"<tr>", "<td>">> \o _escape_html(ls[i]) \o <<"</td>">>
    \o Concat([d \in 1..Len(ds) |->
                  <<"<td>">> \o _escape_html(_render_widget_fallback_value(ds, d, i)) \o <<"</td>">>])
    \o <<"</tr>">>

_render_widget_fallback_table(widget_id, ls, ds) ==
    IF \E d \in 1..Len(ds) :
           ~IsDict(ds[d]) \/ ~IsList(Or(Get(ds[d], "data"), JList(<<>>)))
    THEN [ok |-> FALSE, html |-> <<>>]
    ELSE [ok |-> TRUE,
          html |-> <<"<div class=\"chart-fallback\"", " ", "data-prebuilt=\"true\"">>
                   \o (IF Truthy(widget_id)
                       THEN <<" ", "data-widget-id=\"", _escape_attr(widget_id), "\"">>
                       ELSE <<>>)
                   \o <<">", "<table>", "<thead>", "<tr>", "<th>", "U+7C7B", "U+522B",
                        "</th>">>
                   \o Concat([i \in 1..Len(ds) |-> _render_widget_fallback_header(ds, i)])
                   \o <<"</tr>", "</thead>", "<tbody>">>
                   \o Concat([i \in 1..Len(ls) |-> _render_widget_fallback_row(ls, ds, i)])
                   \o <<"</tbody>", "</table>", "</div>">>]

_render_widget_fallback_each(widget_id, ls, ds) ==
    IF ~ls.ok \/ ~ds.ok THEN [ok |-> FALSE, html |-> <<>>]
    ELSE _render_widget_fallback_table(widget_id, ls.e, ds.e)

_render_widget_fallback_with(widget_id, labels, datasets) ==
    IF ~Truthy(labels) \/ ~Truthy(datasets) THEN [ok |-> TRUE, html |-> <<>>]
    ELSE _render_widget_fallback_each(widget_id, Iterate(labels), Iterate(datasets))

\* [ok, html]: ds.get raises for a dataset that is not a dict.
_render_widget_fallback(data, widget_id) ==
    IF ~IsDict(data) THEN [ok |-> TRUE, html |-> <<>>]
    ELSE _render_widget_fallback_with(widget_id, Or(Get(data, "labels"), JList(<<>>)), Or(Get(data, "datasets"), JList(<<>>)))

\* _format_weight: a share up to 1.5 as a percentage, another number plainly,
\* anything else as str writes it.
_format_weight(value) ==
    IF value.k = "int" /\ value.n = 0 THEN <<"0", ".", "0", "%">>
    ELSE IF value.k = "int" /\ value.n = 1 THEN <<"100", ".", "0", "%">>
    ELSE IF value.k = "none" THEN <<"None">>
    ELSE IF value.k = "bool" THEN (IF value.b THEN <<"True">> ELSE <<"False">>)
    ELSE _safe_text(value)

_render_wordcloud_fallback_text(item) ==
    Or(Or(Get(item, "word"), Get(item, "text")), Get(item, "label"))

_render_wordcloud_fallback_cell(content) ==
    <<"<td>">> \o HtmlEscape(content, FALSE) \o <<"</td>">>

_render_wordcloud_fallback_row(item) ==
    <<"<tr>">> \o _render_wordcloud_fallback_cell(_safe_text(_render_wordcloud_fallback_text(item)))
    \o _render_wordcloud_fallback_cell(_format_weight(Get(item, "weight")))
    \o _render_wordcloud_fallback_cell(_safe_text(Or(Or(Get(item, "category"), JStr(<<>>)), W("-"))))
    \o <<"</tr>">>

_render_wordcloud_fallback_table(widget_id, words) ==
    IF words = <<>> THEN <<>>
    ELSE <<"<div class=\"chart-fallback\"", " ", "data-prebuilt=\"true\"">>
         \o (IF Truthy(widget_id)
             THEN <<" ", "data-widget-id=\"", _escape_attr(widget_id), "\"">>
             ELSE <<>>)
         \o <<">", "<table>", "<thead>", "<tr>", "<th>", "U+5173", "U+952E",
              "U+8BCD", "</th>", "<th>", "U+6743", "U+91CD", "</th>", "<th>",
              "U+7C7B", "U+522B", "</th>", "</tr>", "</thead>", "<tbody>">>
         \o Concat([i \in 1..Len(words) |-> _render_wordcloud_fallback_row(words[i])])
         \o <<"</tbody>", "</table>", "</div>">>

_render_wordcloud_fallback_with(widget_id, raw) ==
    _render_wordcloud_fallback_table(widget_id, SelectSeq(IF IsList(raw) THEN raw.e ELSE <<>>,
                    LAMBDA item : IsDict(item) /\ Truthy(_render_wordcloud_fallback_text(item))))

\* [ok, html]: the table of the words of props.data, "" without a word.
_render_wordcloud_fallback(props, widget_id) ==
    [ok |-> TRUE, html |-> _render_wordcloud_fallback_with(widget_id, IF IsDict(props) THEN Get(props, "data") ELSE JNone)]

\* "</" is written "<\/" inside a script element.
EscapeScriptEnd(text) ==
    Concat([i \in 1..Len(text) |->
               IF text[i] = "/" /\ i > 1 /\ text[i - 1] = "<" THEN <<"\\", "/">>
               ELSE <<text[i]>>])

_render_widget_script(config_id, payload) ==
    <<"<script", " ", "type=\"application/json\"", " ", "id=\"", config_id, "\"", ">">>
    \o EscapeScriptEnd(json_dumps(payload)) \o <<"</script>">>

_render_widget_card(is_wordcloud, title, canvas_id, config_id, fallback_html) ==
    <<"<div", " ", "class=\"",
      IF is_wordcloud THEN "chart-card wordcloud-card" ELSE "chart-card", "\"", ">">>
    \o (IF Truthy(title)
        THEN <<"<div class=\"chart-title\"", ">">> \o _escape_html(title)
             \o <<"</div>">>
        ELSE <<>>)
    \o <<"<div class=\"chart-container\"", ">",
         "<canvas", " ", "id=\"", canvas_id, "\"", " ",
         "data-config-id=\"", config_id, "\"", ">", "</canvas>", "</div>">>
    \o fallback_html \o <<"</div>">>

_render_widget_drawn(normal, is_wordcloud, p, r3, canvas_id, config_id, fallback) ==
    IF ~fallback.ok THEN [ok |-> FALSE, html |-> <<>>, r |-> r3, block |-> normal]
    ELSE [ok |-> TRUE,
          html |-> _render_widget_card(is_wordcloud, Get(p.props, "title"), canvas_id, config_id,
                        fallback.html),
          r |-> r3, block |-> normal]

_render_widget_scripted(normal, used, is_wordcloud, p, r3, canvas_id, config_id) ==
    IF ~IsDict(p.props) THEN [ok |-> FALSE, html |-> <<>>, r |-> r3, block |-> normal]
    ELSE _render_widget_drawn(normal, is_wordcloud, p, r3, canvas_id, config_id,
               IF is_wordcloud
               THEN _render_wordcloud_fallback(p.props, Get(used, "widgetId"))
               ELSE _render_widget_fallback(p.data, Get(used, "widgetId")))

_render_widget_prepared(normal, used, is_wordcloud, p, r2, canvas_id, config_id) ==
    IF ~p.ok THEN [ok |-> FALSE, html |-> <<>>, r |-> r2, block |-> normal]
    ELSE _render_widget_scripted(normal, used, is_wordcloud, p,
                  [r2 EXCEPT !.widget_scripts =
                       Append(@, _render_widget_script(config_id,
                                        JDict([widgetId |-> Get(used, "widgetId"),
                                               widgetType |-> Get(used, "widgetType"),
                                               props |-> p.props, data |-> p.data,
                                               dataRef |-> Get(used, "dataRef")])))],
                  canvas_id, config_id)

_render_widget_counted(r, v, normal, used, is_chart, is_wordcloud, n) ==
    _render_widget_prepared(normal, used, is_wordcloud, _prepare_widget_payload(used),
             [r EXCEPT !.chart_validation_stats = IF is_chart THEN CountChart(@, v)
                                                  ELSE @,
                       !.chart_counter = n],
             KeyOf(<<"chart", "-">> \o Decimal(n)),
             KeyOf(<<"chart", "-", "config", "-">> \o Decimal(n)))

_render_widget_typed(r, v, normal, widget_type, is_chart) ==
    _render_widget_counted(r, v, normal,
            IF is_chart /\ ~v.is_valid /\ v.success /\ v.repaired
            THEN RepairedBlock(normal) ELSE normal,
            is_chart,
            IsStr(widget_type)
            /\ \E i \in 1..Len(widget_type.s) : widget_type.s[i] = "wordcloud",
            r.chart_counter + 1)

_render_widget_normalized(r, v, normal, widget_type) ==
    _render_widget_typed(r, v, normal, widget_type, IsChartType(widget_type))

_render_widget_with(r, v, normal) ==
    _render_widget_normalized(r, v, normal, GetOr(normal, "widgetType", JStr(<<>>)))

\* [ok, html, r, block]: r is the renderer after the call, block the block
\* of the chapter as the call leaves it.
_render_widget(r, block, v) ==
    _render_widget_with(r, v, _normalize_chart_block(block, r.current_chapter))

(***************************************************************************)
(* Block rendering.  A rendering operator returns [ok, html, r, block]:    *)
(* whether it returned, the HTML, the renderer's state after the call and  *)
(* the block of the prepared chapter as the call leaves it.                *)
(***************************************************************************)
Max(a, b) == IF a >= b THEN a ELSE b

_render_heading_level_of(original_level) ==
    IF original_level <= 2 THEN 2
    ELSE IF original_level = 3 THEN 3 ELSE Min(original_level, 6)

_render_heading_display_text(r, block, key) ==
    IF key \in DOMAIN r.heading_label_map /\ r.heading_label_map[key].display # <<>>
    THEN JStr(r.heading_label_map[key].display)
    ELSE GetOr(block, "text", JStr(<<>>))

_render_heading_element(r, block, r2, anchor, tag, subtitle) ==
    [ok |-> TRUE,
     html |-> <<"<" \o tag, " ", "id=\"", _escape_attr(anchor), "\"", ">">>
              \o _escape_html(_render_heading_display_text(r, block, StrOf(anchor)))
              \o (IF Truthy(subtitle)
                  THEN <<"<small>">> \o _escape_html(subtitle) \o <<"</small>">>
                  ELSE <<>>)
              \o <<"</" \o tag \o ">">>,
     r |-> r2, block |-> block]

_render_heading_anchored(r, block, own, r2) ==
    _render_heading_element(r, block, r2,
            IF Truthy(own) THEN own
            ELSE JStr(<<"heading", "-">> \o Decimal(r2.heading_counter)),
            "h" \o KeyOf(Decimal(_render_heading_level_of(Max(1, Min(6, GetOr(block, "level",
                                                              JInt(2)).n))))),
            Get(block, "subtitle"))

_render_heading(r, block) ==
    _render_heading_anchored(r, block, Get(block, "anchor"),
             IF Truthy(Get(block, "anchor")) THEN r
             ELSE [r EXCEPT !.heading_counter = @ + 1])

_render_paragraph_joined(runs) ==
    IF \E i \in 1..Len(runs) : ~runs[i].ok THEN [ok |-> FALSE, html |-> <<>>]
    ELSE [ok |-> TRUE,
          html |-> <<"<p>">> \o Concat([i \in 1..Len(runs) |-> runs[i].html])
                   \o <<"</p>">>]

_render_paragraph_each(inlines) ==
    IF ~inlines.ok THEN [ok |-> FALSE, html |-> <<>>]
    ELSE _render_paragraph_joined([i \in 1..Len(inlines.e) |-> _render_inline(inlines.e[i])])

\* [ok, html]
_render_paragraph(block) ==
    _render_paragraph_each(Iterate(GetOr(block, "inlines", JList(<<>>))))

\* The caption of a figure that has none.
FigureOmitted ==
    <<"U+56FE", "U+50CF", "U+5185", "U+5BB9", "U+5DF2", "U+7701", "U+7565", "U+FF08", "U+4EC5", "U+5141", "U+8BB8", "HTML", "U+539F", "U+751F", "U+56FE", "U+8868", "U+4E0E", "U+8868", "U+683C", "U+FF09">>

_format_toc_entry(entry) ==
    LET item(desc, css_level) ==
            <<"<li", " ", "class=\"", "level-" \o KeyOf(Decimal(css_level)), "\"", ">",
              "<a", " ", "href=\"#", entry.anchor, "\"", ">">>
            \o HtmlEscape(entry.text, FALSE) \o <<"</a>">>
            \o (IF desc # <<>>
                THEN <<"<p class=\"toc-desc\"", ">">> \o HtmlEscape(desc, FALSE) \o <<"</p>">>
                ELSE <<>>)
            \o <<"</li>">>
    IN  item(IF entry.description # <<>> THEN CleanText(entry.description) ELSE <<>>,
             IF entry.level <= 2 THEN 1 ELSE Min(entry.level, 4))

_render_toc_section_toc_config(r) ==
    Or(Get(r.metadata, "toc"), JDict(<<>>))

_render_toc_section_toc_title(r) ==
    Or(Get(_render_toc_section_toc_config(r), "title"), JStr(<<"U+1F4DA", " ", "U+76EE", "U+5F55">>))

\* A plausible slip: the flag is set but never read, so a toc block emits
\* the section again.
TocSectionIgnoringFlag(r) ==
    IF r.toc_entries = <<>> THEN [html |-> <<>>, r |-> r]
    ELSE [html |-> <<"<nav class=\"toc\"", ">", "<div class=\"toc-title\"", ">">>
                   \o _escape_html(_render_toc_section_toc_title(r)) \o <<"</div>", "<ul>">>
                   \o Concat([i \in 1..Len(r.toc_entries) |->
                                 _format_toc_entry(r.toc_entries[i])])
                   \o <<"</ul>", "</nav>">>,
          r |-> [r EXCEPT !.toc_rendered = TRUE]]

\* [html, r]
_render_toc_section(r) ==
    IF r.toc_entries = <<>> \/ r.toc_rendered THEN [html |-> <<>>, r |-> r]
    ELSE [html |-> <<"<nav class=\"toc\"", ">", "<div class=\"toc-title\"", ">">>
                   \o _escape_html(_render_toc_section_toc_title(r)) \o <<"</div>", "<ul>">>
                   \o Concat([i \in 1..Len(r.toc_entries) |->
                                 _format_toc_entry(r.toc_entries[i])])
                   \o <<"</ul>", "</nav>">>,
          r |-> [r EXCEPT !.toc_rendered = TRUE]]

_wrap_error_block_element(html_fragment, importance, raw_preview, tooltip) ==
    <<"<div", " ", "class=\"", "llm-error-block", " ",
      "importance-" \o _escape_attr(importance), "\"", " ",
      "data-raw=\"",
      _escape_attr(JStr(IF raw_preview # <<>> THEN raw_preview ELSE tooltip)),
      "\"", " ", "title=\"", _escape_attr(JStr(tooltip)), "\"", ">">>
    \o html_fragment \o <<"</div>">>

_wrap_error_block_ref_label(log_ref) ==
    IF Truthy(Get(log_ref, "relativeFile")) /\ Truthy(Get(log_ref, "entryId"))
    THEN _safe_text(Get(log_ref, "relativeFile")) \o <<"#">>
         \o _safe_text(Get(log_ref, "entryId"))
    ELSE <<>>

_wrap_error_block_error_message(meta) ==
    _safe_text(Or(Get(meta, "errorMessage"),
                  JStr(<<"LLM", "U+8FD4", "U+56DE", "U+5757", "U+89E3", "U+6790",
                         "U+9519", "U+8BEF">>)))

_wrap_error_block_wrap(html_fragment, meta, log_ref) ==
    IF ~IsDict(meta) THEN [ok |-> FALSE, html |-> <<>>]
    ELSE IF ~IsDict(log_ref) THEN [ok |-> TRUE, html |-> html_fragment]
    ELSE [ok |-> TRUE,
          html |-> _wrap_error_block_element(html_fragment, Or(Get(meta, "importance"), W("standard")),
                           _safe_text(Or(Get(meta, "rawJsonPreview"), JStr(<<>>))),
                           Strip(_wrap_error_block_error_message(meta) \o <<" ", "|", " ">>
                                 \o _wrap_error_block_ref_label(log_ref)))]

_wrap_error_block_with(html_fragment, meta) ==
    _wrap_error_block_wrap(html_fragment, meta, Get(meta, "errorLogRef"))

\* [ok, html]; meta.get raises for a meta that is truthy and no dict.
_wrap_error_block(html_fragment, block) ==
    IF html_fragment = <<>> THEN [ok |-> TRUE, html |-> html_fragment]
    ELSE _wrap_error_block_with(html_fragment, Or(Get(block, "meta"), JDict(<<>>)))

\* What the Table Normalizer reads of the rows of a table block; src is the cell.
TableView(rows) ==
    LET text(inline) == _safe_text(IF IsDict(inline) THEN Get(inline, "text") ELSE inline)
        blockView(block) ==
            [type |-> IF IsDict(block) THEN TypeOf(block) ELSE "",
             inlines |-> IF IsDict(block) /\ TypeOf(block) = "paragraph"
                         THEN LET inlines == Iterate(Or(Get(block, "inlines"), JList(<<>>))).e
                              IN  [i \in 1..Len(inlines) |-> [text |-> text(inlines[i])]]
                         ELSE <<>>]
        cellView(cell) ==
            LET blocks == IF IsDict(cell) THEN Iterate(GetOr(cell, "blocks", JList(<<>>))).e
                          ELSE <<>>
            IN  [blocks |-> [i \in 1..Len(blocks) |-> blockView(blocks[i])],
                 header |-> FALSE, src |-> cell]
        rowView(row) ==
            LET cells == Or(Get(row, "cells"), JList(<<>>)).e
            IN  [cells |-> [i \in 1..Len(cells) |-> cellView(cells[i])]]
    IN  [i \in 1..Len(rows) |-> rowView(rows[i])]

NormalizedRows_cell(c) ==
    IF c.header THEN Set(c.src, "header", JTrue) ELSE c.src

NormalizedRows_row(v) ==
    JDict([cells |-> JList([i \in 1..Len(v.cells) |-> NormalizedRows_cell(v.cells[i])])])

NormalizedRows_back(rows, view, normalized) ==
    IF normalized = view THEN rows
    ELSE [i \in 1..Len(normalized) |-> NormalizedRows_row(normalized[i])]

NormalizedRows_through(rows, view) ==
    NormalizedRows_back(rows, view, _normalize_table_rows(view))

\* The rows _normalize_table_rows returns for the rows of a table block.
NormalizedRows(rows) ==
    NormalizedRows_through(rows, TableView(rows))

\* What the Callout Sanitizer reads of a block: its type and, of a list, its
\* items; the block itself is carried as the tag.
RECURSIVE CalloutView(_)
CalloutView(block) ==
    LET items == IF TypeOf(block) = "list" THEN Or(Get(block, "items"), JList(<<>>)).e
                 ELSE <<>>
    IN  [type |-> TypeOf(block), tag |-> block,
         items |-> [i \in 1..Len(items) |->
                       [j \in 1..Len(items[i].e) |-> CalloutView(items[i].e[j])]]]

\* The block a view stands for, with the items the sanitizer left it.
RECURSIVE CalloutBlock(_)
CalloutBlock(view) ==
    IF view.items = <<>> THEN view.tag
    ELSE Set(view.tag, "items",
             JList([i \in 1..Len(view.items) |->
                       JList([j \in 1..Len(view.items[i]) |-> CalloutBlock(view.items[i][j])])]))

SplitCalloutBlocks_back(split) ==
    [kept |-> [i \in 1..Len(split.kept) |-> CalloutBlock(split.kept[i])],
     overflow |-> [i \in 1..Len(split.overflow) |-> CalloutBlock(split.overflow[i])]]

\* [kept, overflow] of the children of a callout.
SplitCalloutBlocks(blocks) ==
    SplitCalloutBlocks_back(_split_callout_content([i \in 1..Len(blocks) |-> CalloutView(blocks[i])]))

\* The KPI signature of a list of items: of each dict its label, value,
\* unit, delta and tone.
_kpi_signature_from_items(items) ==
    LET field(item, k) ==
            IF k = 5 THEN Or(Get(item, "deltaTone"), Get(item, "tone"))
            ELSE Get(item, <<"label", "value", "unit", "delta">>[k])
        signature(dicts) ==
            [i \in 1..Len(dicts) |-> [k \in 1..5 |-> Strip(_safe_text(field(dicts[i], k)))]]
    IN  signature(IF IsList(items) THEN SelectSeq(items.e, IsDict) ELSE <<>>)

_should_skip_overview_kpi(r, block) ==
    /\ r.hero_kpi_signature # <<>>
    /\ _kpi_signature_from_items(Get(block, "items")) = r.hero_kpi_signature

_render_kpi_grid_card(item) ==
    <<"<div class=\"kpi-card\"", ">", "<div class=\"kpi-value\"", ">">>
    \o _escape_html(GetOr(item, "value", JStr(<<>>)))
    \o <<"<small>">> \o _escape_html(GetOr(item, "unit", JStr(<<>>)))
    \o <<"</small>", "</div>", "<div class=\"kpi-label\"", ">">>
    \o _escape_html(GetOr(item, "label", JStr(<<>>))) \o <<"</div>">>
    \o (IF Truthy(Get(item, "delta"))
        THEN <<"<span", " ", "class=\"", "delta", " ",
               StrOf(Or(Get(item, "deltaTone"), W("neutral"))), "\"", ">">>
             \o _escape_html(Get(item, "delta")) \o <<"</span>">>
        ELSE <<>>)
    \o <<"</div>">>

_render_kpi_grid_grid(items) ==
    IF ~items.ok \/ \E i \in 1..Len(items.e) : ~IsDict(items.e[i])
    THEN [ok |-> FALSE, html |-> <<>>]
    ELSE [ok |-> TRUE,
          html |-> <<"<div class=\"kpi-grid\"", ">">>
                   \o Concat([i \in 1..Len(items.e) |-> _render_kpi_grid_card(items.e[i])])
                   \o <<"</div>">>]

\* [ok, html]
_render_kpi_grid(r, block) ==
    IF _should_skip_overview_kpi(r, block) THEN [ok |-> TRUE, html |-> <<>>]
    ELSE _render_kpi_grid_grid(Iterate(GetOr(block, "items", JList(<<>>))))

    RECURSIVE _render_block(_, _, _), _render_blocks(_, _, _), RenderEach(_, _, _, _, _),
      RenderItems(_, _, _, _, _), RenderCells(_, _, _, _, _), RenderRows(_, _, _, _, _),
      _render_list(_, _, _), _render_table(_, _, _), _render_blockquote(_, _, _),
      _render_callout(_, _, _)

RenderEach_next(verdicts, i, html, one, now) ==
    IF ~one.ok THEN [ok |-> FALSE, html |-> html, r |-> one.r, blocks |-> now]
    ELSE RenderEach(one.r, now, verdicts, i + 1, html \o one.html)

RenderEach_step(blocks, verdicts, i, html, one) ==
    RenderEach_next(verdicts, i, html, one, [blocks EXCEPT ![i] = one.block])

\* The loop of _render_blocks from block i on: [ok, html, r, blocks]; blocks
\* are the blocks as the calls leave them.  verdicts[n] answers for the n-th
\* chart of the render call.
RenderEach(r, blocks, verdicts, i, html) ==
    IF i > Len(blocks) THEN [ok |-> TRUE, html |-> html, r |-> r, blocks |-> blocks]
    ELSE RenderEach_step(blocks, verdicts, i, html, _render_block(r, blocks[i], verdicts))

_render_blocks_result(blocks, done) ==
    [ok |-> done.ok, html |-> done.html, r |-> done.r,
     block |-> IF IsList(blocks) THEN JList(done.blocks) ELSE blocks]

_render_blocks_all(r, blocks, verdicts, each) ==
    IF ~each.ok THEN [ok |-> FALSE, html |-> <<>>, r |-> r, block |-> blocks]
    ELSE _render_blocks_result(blocks, RenderEach(r, each.e, verdicts, 1, <<>>))

\* blocks is the value handed over: "for block in blocks or []".
_render_blocks(r, blocks, verdicts) ==
    _render_blocks_all(r, blocks, verdicts, Iterate(Or(blocks, JList(<<>>))))

RenderItems_next(verdicts, i, html, one, now) ==
    IF ~one.ok THEN [ok |-> FALSE, html |-> html, r |-> one.r, blocks |-> now]
    ELSE RenderItems(one.r, now, verdicts, i + 1,
                     html \o (IF Strip(one.html) = <<>> THEN <<>>
                              ELSE <<"<li>">> \o one.html \o <<"</li>">>))

RenderItems_step(items, verdicts, i, html, one) ==
    RenderItems_next(verdicts, i, html, one, [items EXCEPT ![i] = one.block])

\* The loop over the items of a list block from item i on.
RenderItems(r, items, verdicts, i, html) ==
    IF i > Len(items) THEN [ok |-> TRUE, html |-> html, r |-> r, blocks |-> items]
    ELSE RenderItems_step(items, verdicts, i, html, _render_blocks(r, items[i], verdicts))

_render_list_element(block, list_type, tag, done) ==
    [ok |-> done.ok,
     html |-> <<"<" \o tag>>
              \o (IF list_type = "task" THEN <<" ", "class=\"task-list\"">> ELSE <<>>)
              \o <<">">> \o done.html \o <<"</" \o tag \o ">">>,
     r |-> done.r,
     block |-> IF IsList(Get(block, "items"))
               THEN Set(block, "items", JList(done.blocks)) ELSE block]

_render_list_all(r, block, verdicts, list_type, items) ==
    IF ~items.ok THEN [ok |-> FALSE, html |-> <<>>, r |-> r, block |-> block]
    ELSE _render_list_element(block, list_type, IF list_type = "ordered" THEN "ol" ELSE "ul",
                 RenderItems(r, items.e, verdicts, 1, <<>>))

_render_list(r, block, verdicts) ==
    _render_list_all(r, block, verdicts, StrOf(GetOr(block, "listType", W("bullet"))),
        Iterate(GetOr(block, "items", JList(<<>>))))

RenderCells_span(cell, key) ==
    IF Truthy(Get(cell, key))
    THEN <<" ", key \o "=\"", KeyOf(Decimal(Get(cell, key).n)), "\"">>
    ELSE <<>>

RenderCells_align(cell) ==
    IF Truthy(Get(cell, "align"))
    THEN <<" ", "class=\"", "align-" \o StrOf(Get(cell, "align")), "\"">>
    ELSE <<>>

RenderCells_next(verdicts, i, html, cell, cell_tag, one, now) ==
    IF ~one.ok THEN [ok |-> FALSE, html |-> html, r |-> one.r, blocks |-> now]
    ELSE RenderCells(one.r, now, verdicts, i + 1,
                     html \o <<"<" \o cell_tag>> \o RenderCells_span(cell, "rowspan")
                     \o RenderCells_span(cell, "colspan") \o RenderCells_align(cell) \o <<">">> \o one.html
                     \o <<"</" \o cell_tag \o ">">>)

RenderCells_step(cells, verdicts, i, html, cell, one) ==
    RenderCells_next(verdicts, i, html, cell,
         IF Truthy(Get(cell, "header")) \/ Truthy(Get(cell, "isHeader"))
         THEN "th" ELSE "td",
         one,
         [cells EXCEPT ![i] = IF Has(cell, "blocks")
                              THEN Set(cell, "blocks", one.block) ELSE cell])

\* The loop over the cells of a row from cell i on.
RenderCells(r, cells, verdicts, i, html) ==
    IF i > Len(cells) THEN [ok |-> TRUE, html |-> html, r |-> r, blocks |-> cells]
    ELSE IF ~IsDict(cells[i])
    THEN [ok |-> FALSE, html |-> html, r |-> r, blocks |-> cells]
    ELSE RenderCells_step(cells, verdicts, i, html, cells[i], _render_blocks(r, GetOr(cells[i], "blocks", JList(<<>>)), verdicts))

RenderRows_next(verdicts, i, html, one, now) ==
    IF ~one.ok THEN [ok |-> FALSE, html |-> html, r |-> one.r, blocks |-> now]
    ELSE RenderRows(one.r, now, verdicts, i + 1,
                    html \o <<"<tr>">> \o one.html \o <<"</tr>">>)

RenderRows_step(rows, verdicts, i, html, one) ==
    RenderRows_next(verdicts, i, html, one, [rows EXCEPT ![i] = IF IsList(Get(rows[i], "cells"))
                                  THEN Set(rows[i], "cells", JList(one.blocks))
                                  ELSE rows[i]])

RenderRows_all(r, rows, verdicts, i, html, cells) ==
    IF ~cells.ok THEN [ok |-> FALSE, html |-> html, r |-> r, blocks |-> rows]
    ELSE RenderRows_step(rows, verdicts, i, html, RenderCells(r, cells.e, verdicts, 1, <<>>))

\* The loop over the rows of a table from row i on.
RenderRows(r, rows, verdicts, i, html) ==
    IF i > Len(rows) THEN [ok |-> TRUE, html |-> html, r |-> r, blocks |-> rows]
    ELSE IF ~IsDict(rows[i]) THEN [ok |-> FALSE, html |-> html, r |-> r, blocks |-> rows]
    ELSE RenderRows_all(r, rows, verdicts, i, html, Iterate(GetOr(rows[i], "cells", JList(<<>>))))

_render_table_cellsOf(row) ==
    Or(Get(row, "cells"), JList(<<>>))

\* row.get, len(cells) and, in a table of one-cell rows, cell.get raise
_render_table_wellFormed(source_rows) ==
    /\ \A i \in 1..Len(source_rows) :
           IsDict(source_rows[i]) /\ IsList(_render_table_cellsOf(source_rows[i]))
    /\ (\A i \in 1..Len(source_rows) : Len(_render_table_cellsOf(source_rows[i]).e) = 1)
           => \A i \in 1..Len(source_rows) : IsDict(_render_table_cellsOf(source_rows[i]).e[1])

_render_table_element(block, source_rows, rows, done, caption) ==
    [ok |-> done.ok,
     html |-> <<"<div class=\"table-wrap\"", ">", "<table>">>
              \o (IF Truthy(caption)
                  THEN <<"<caption>">> \o _escape_html(caption) \o <<"</caption>">>
                  ELSE <<>>)
              \o <<"<tbody>">> \o done.html \o <<"</tbody>", "</table>", "</div>">>,
     r |-> done.r,
     block |-> IF rows = source_rows /\ IsList(Get(block, "rows"))
               THEN Set(block, "rows", JList(done.blocks)) ELSE block]

_render_table_normalized(r, block, verdicts, source_rows, rows) ==
    _render_table_element(block, source_rows, rows, RenderRows(r, rows, verdicts, 1, <<>>),
            Get(block, "caption"))

_render_table_all(r, block, verdicts, source_rows) ==
    IF ~source_rows.ok \/ ~_render_table_wellFormed(source_rows.e)
    THEN [ok |-> FALSE, html |-> <<>>, r |-> r, block |-> block]
    ELSE _render_table_normalized(r, block, verdicts, source_rows.e, NormalizedRows(source_rows.e))

\* The cells of a transposed table are copies: what rendering changes in
\* them does not reach the block.
_render_table(r, block, verdicts) ==
    _render_table_all(r, block, verdicts, Iterate(Or(Get(block, "rows"), JList(<<>>))))

_render_blockquote_element(block, inner) ==
    [ok |-> inner.ok,
     html |-> <<"<blockquote>">> \o inner.html \o <<"</blockquote>">>,
     r |-> inner.r,
     block |-> IF Has(block, "blocks") THEN Set(block, "blocks", inner.block)
               ELSE block]

_render_blockquote(r, block, verdicts) ==
    _render_blockquote_element(block, _render_blocks(r, GetOr(block, "blocks", JList(<<>>)), verdicts))

_render_callout_element(block, inner, trailing, after, title) ==
    [ok |-> trailing.ok,
     html |-> <<"<div class=\"callout tone-" \o StrOf(GetOr(block, "tone", W("info")))
                \o "\"", ">">>
              \o (IF Truthy(title)
                  THEN <<"<strong>">> \o _escape_html(title) \o <<"</strong>">>
                  ELSE <<>>)
              \o inner.html \o <<"</div>">> \o trailing.html,
     r |-> trailing.r, block |-> after]

_render_callout_rendered(block, verdicts, split, inner, after) ==
    IF ~inner.ok THEN [ok |-> FALSE, html |-> <<>>, r |-> inner.r, block |-> after]
    ELSE _render_callout_element(block, inner, RenderEach(inner.r, split.overflow, verdicts, 1, <<>>), after,
                 Get(block, "title"))

_render_callout_left(block, children, own, inner) ==
    IF IsList(Get(block, "blocks"))
    THEN Set(block, "blocks",
             JList([i \in 1..Len(children) |->
                       IF i \in own THEN inner.blocks[i] ELSE children[i]]))
    ELSE block

_render_callout_kept(block, verdicts, children, split, inner) ==
    _render_callout_rendered(block, verdicts, split, inner,
             _render_callout_left(block, children,
                  {i \in 1..Len(split.kept) :
                      split.kept[i] = children[i] /\ TypeOf(children[i]) # "list"},
                  inner))

_render_callout_sanitized(r, block, verdicts, children, split) ==
    _render_callout_kept(block, verdicts, children, split, RenderEach(r, split.kept, verdicts, 1, <<>>))

_render_callout_all(r, block, verdicts, children) ==
    IF ~children.ok \/ \E i \in 1..Len(children.e) : ~IsDict(children.e[i])
    THEN [ok |-> FALSE, html |-> <<>>, r |-> r, block |-> block]
    ELSE _render_callout_sanitized(r, block, verdicts, children.e, SplitCalloutBlocks(children.e))

\* The children kept as they are stay the block's own children; a sanitized
\* list and the trailing blocks are copies.
_render_callout(r, block, verdicts) ==
    _render_callout_all(r, block, verdicts, Iterate(Or(Get(block, "blocks"), JList(<<>>))))

_render_block_plain(r, block, res) ==
    [ok |-> res.ok, html |-> res.html, r |-> r, block |-> block]

_render_block_toc(block, res) ==
    [ok |-> TRUE, html |-> res.html, r |-> res.r, block |-> block]

_render_block_handled(block_type) ==
    block_type \in {"heading", "paragraph", "list", "table", "blockquote", "hr",
                    "code", "math", "figure", "callout", "kpiGrid", "widget", "toc"}

_render_block_dispatch(r, block, verdicts, block_type) ==
    CASE block_type = "heading" -> _render_heading(r, block)
      [] block_type = "paragraph"
         \/ (~_render_block_handled(block_type) /\ Truthy(Get(block, "inlines"))) ->
             _render_block_plain(r, block, _render_paragraph(
                       IF block_type = "paragraph" THEN block
                       ELSE JDict([inlines |-> Get(block, "inlines")])))
      [] block_type = "list" -> _render_list(r, block, verdicts)
      [] block_type = "table" -> _render_table(r, block, verdicts)
      [] block_type = "blockquote" -> _render_blockquote(r, block, verdicts)
      [] block_type = "hr" -> _render_block_plain(r, block, [ok |-> TRUE, html |-> <<"<hr />">>])
      [] block_type = "code" ->
             _render_block_plain(r, block, [ok |-> TRUE,
                    html |-> <<"<pre", " ", "class=\"code-block\"", " ", "data-lang=\"",
                               _escape_attr(Or(Get(block, "lang"), JStr(<<>>))),
                               "\"", ">", "<code>">>
                             \o _escape_html(GetOr(block, "content", JStr(<<>>)))
                             \o <<"</code>", "</pre>">>])
      [] block_type = "math" ->
             _render_block_plain(r, block, [ok |-> TRUE,
                    html |-> <<"<div class=\"math-block\"", ">", "$$", " ">>
                             \o _escape_html(GetOr(block, "latex", JStr(<<>>)))
                             \o <<" ", "$$", "</div>">>])
      [] block_type = "figure" ->
             _render_block_plain(r, block, [ok |-> TRUE,
                    html |-> <<"<div class=\"figure-placeholder\"", ">">>
                             \o _escape_html(Or(Get(block, "caption"),
                                                JStr(FigureOmitted)))
                             \o <<"</div>">>])
      [] block_type = "callout" -> _render_callout(r, block, verdicts)
      [] block_type = "kpiGrid" -> _render_block_plain(r, block, _render_kpi_grid(r, block))
      [] block_type = "widget" ->
             _render_widget(r, block, verdicts[r.chart_validation_stats.total + 1])
      [] block_type = "toc" -> _render_block_toc(block, _render_toc_section(r))
      [] IsList(Get(block, "blocks")) ->
             _render_blocks(r, Get(block, "blocks"), verdicts)
      [] OTHER ->
             _render_block_plain(r, block, [ok |-> TRUE,
                    html |-> <<"<pre class=\"unknown-block\"", ">">>
                             \o HtmlEscape(json_dumps(block), FALSE)
                             \o <<"</pre>">>])

_render_block_wrapped(block, nested, res, wrap) ==
    [ok |-> res.ok /\ wrap.ok,
     html |-> IF res.ok THEN wrap.html ELSE <<>>,
     r |-> res.r,
     block |-> IF nested THEN Set(block, "blocks", res.block) ELSE res.block]

_render_block_finish(block, nested, res) ==
    _render_block_wrapped(block, nested, res,
            IF res.ok THEN _wrap_error_block(res.html, block)
            ELSE [ok |-> FALSE, html |-> <<>>])

_render_block_with(r, block, verdicts, block_type) ==
    _render_block_finish(block, ~_render_block_handled(block_type) /\ ~Truthy(Get(block, "inlines"))
           /\ IsList(Get(block, "blocks")),
           _render_block_dispatch(r, block, verdicts, block_type))

_render_block(r, block, verdicts) ==
    \* block.get raises before the branch for a str block is reached
    \* and handlers.get for a type that cannot be hashed
    IF ~IsDict(block) \/ Get(block, "type").k \in {"list", "dict"}
    THEN [ok |-> FALSE, html |-> <<>>, r |-> r, block |-> block]
    ELSE _render_block_with(r, block, verdicts, TypeOf(block))

_render_chapter_section_id(chapter) ==
    _escape_attr(
        Or(Get(chapter, "anchor"),
           JStr(<<"chapter", "-">>
                \o _safe_text(GetOr(chapter, "chapterId", W("x"))))))

_render_chapter_section(r, chapter, inner) ==
    [ok |-> inner.ok,
     html |-> <<"<section", " ", "id=\"", _render_chapter_section_id(chapter), "\"", " ", "class=\"chapter\"",
                ">">>
              \o inner.html \o <<"</section>">>,
     r |-> [inner.r EXCEPT !.current_chapter = r.current_chapter],
     chapter |-> Set(chapter, "blocks", inner.block)]

\* [ok, html, r, chapter]: _render_chapter; chapter is the prepared chapter
\* as the call leaves it.
_render_chapter(r, chapter, verdicts) ==
    _render_chapter_section(r, chapter, _render_blocks([r EXCEPT !.current_chapter = chapter],
                           GetOr(chapter, "blocks", JList(<<>>)), verdicts))

(***************************************************************************)
(* One render call.  The chapters of the Document are objects: heap[o] is  *)
(* the value of object o, and a Document names its chapters by object.     *)
(* copy.deepcopy makes a new object with an equal value; what the renderer *)
(* then writes to the copy is written to heap at the copy.  The metadata   *)
(* dict is shared with the Document and no statement writes to it, so the  *)
(* renderer record holds its value.                                        *)
(***************************************************************************)
\* Bound: the blocks of a chapter of the rendered Documents.
MaxBlocks == 2

EmptyStats ==
    [total |-> 0, valid |-> 0, repaired_locally |-> 0, repaired_api |-> 0, failed |-> 0]

\* The instance state __init__ sets up.
NewRenderer ==
    [widget_scripts |-> <<>>, chart_counter |-> 0, toc_entries |-> <<>>,
     heading_counter |-> 0, metadata |-> JDict(<<>>), chapters |-> <<>>,
     chapter_anchor_map |-> <<>>, heading_label_map |-> <<>>, toc_rendered |-> FALSE,
     hero_kpi_signature |-> <<>>, current_chapter |-> JNone,
     chart_validation_stats |-> EmptyStats]

NoOutput ==
    [head |-> <<>>, header |-> <<>>, hero |-> <<>>, toc_section |-> <<>>,
     chapters |-> <<>>, html |-> <<>>]

\* The value of a Document whose chapters are the objects oids.
DocumentValue(h, metadata, oids) ==
    [metadata |-> metadata, chapters |-> [i \in 1..Len(oids) |-> h[oids[i]]]]

\* blocks or []: the blocks of a chapter as the repair iterates them.
ChapterBlocks(value) == Iterate(Or(GetOr(value, "blocks", JList(<<>>)), JList(<<>>)))

\* A plausible slip: the chapter is prepared without copy.deepcopy, so
\* chapter_copy is the chapter of the Document itself.
CopyByReference(h, chapter) == [heap |-> h, ref |-> chapter]

\* copy.deepcopy(chapter): a new object, equal to the chapter, that shares
\* nothing with it.
deepcopy(h, chapter) == [heap |-> Append(h, h[chapter]), ref |-> Len(h) + 1]

RECURSIVE PrepareEach(_, _, _, _)

PrepareEach_store(chapters, i, prepared, chapter_copy, value, copied, expanded) ==
    IF ~expanded.ok THEN [ok |-> FALSE, heap |-> copied, chapters |-> prepared]
    ELSE PrepareEach(
             [copied EXCEPT ![chapter_copy] = Set(value, "blocks",
                                                  JList(expanded.blocks))],
             chapters, i + 1, Append(prepared, chapter_copy))

PrepareEach_expand(chapters, i, prepared, chapter_copy, value, copied, blocks) ==
    IF ~IsDict(value) \/ ~blocks.ok
    THEN [ok |-> FALSE, heap |-> copied, chapters |-> prepared]
    ELSE PrepareEach_store(chapters, i, prepared, chapter_copy, value, copied,
                           _expand_blocks_in_place(blocks.e))

PrepareEach_copied(chapters, i, prepared, copy) ==
    PrepareEach_expand(chapters, i, prepared, copy.ref, copy.heap[copy.ref], copy.heap,
                       ChapterBlocks(copy.heap[copy.ref]))

\* The loop of _prepare_chapters from chapter i on: [ok, heap, chapters].
\* chapter_copy.get raises for a chapter that is no dict, the loop of the
\* repair for blocks that cannot be iterated.
PrepareEach(h, chapters, i, prepared) ==
    IF i > Len(chapters) THEN [ok |-> TRUE, heap |-> h, chapters |-> prepared]
    ELSE PrepareEach_copied(chapters, i, prepared, deepcopy(h, chapters[i]))

_prepare_chapters(h, chapters) == PrepareEach(h, chapters, 1, <<>>)

\* The title of a report that has none.
DefaultTitle == <<"U+667A", "U+80FD", "U+8206", "U+60C5", "U+62A5", "U+544A">>
DefaultHeaderTitle == <<"U+667A", "U+80FD", "U+8206", "U+60C5", "U+5206", "U+6790", "U+62A5", "U+544A">>
DefaultSubtitle == <<"U+81EA", "U+52A8", "U+751F", "U+6210">>
OverviewHint == <<"U+6587", "U+7AE0", "U+603B", "U+89C8">>

\* The head: the page title between the constant parts (meta tags, the
\* bundled libraries, the style sheet of the default theme).
_render_head(title) ==
    <<"<head>", "<title>">> \o _escape_html(title) \o <<"</title>", "<style>", "</style>",
      "</head>">>

_render_tagline(r) ==
    IF Truthy(Get(r.metadata, "tagline"))
    THEN <<"<p class=\"tagline\"", ">">> \o _escape_html(Get(r.metadata, "tagline")) \o <<"</p>">>
    ELSE <<>>

_render_header_title(r) ==
    Or(Get(r.metadata, "title"), JStr(DefaultHeaderTitle))

_render_header_subtitle(r) ==
    Or(Or(Get(r.metadata, "subtitle"), Get(r.metadata, "templateName")),
       JStr(DefaultSubtitle))

_render_header(r) ==
    <<"<header class=\"report-header no-print\"", ">", "<h1>">> \o _escape_html(_render_header_title(r))
    \o <<"</h1>", "<p class=\"subtitle\"", ">">> \o _escape_html(_render_header_subtitle(r)) \o <<"</p>">>
    \o _render_tagline(r) \o <<"</header>">>

_render_hero_hero(r) ==
    Or(Get(r.metadata, "hero"), JDict(<<>>))

_render_hero_title(r) ==
    Or(Get(r.metadata, "title"), JStr(DefaultTitle))

_render_hero_subtitle(r) ==
    Or(Or(Get(r.metadata, "subtitle"), Get(r.metadata, "templateName")),
       JStr(<<>>))

_render_hero_summary(r) ==
    Get(_render_hero_hero(r), "summary")

_render_hero_highlights(r) ==
    Iterate(Or(Get(_render_hero_hero(r), "highlights"), JList(<<>>)))

_render_hero_actions(r) ==
    Iterate(Or(Get(_render_hero_hero(r), "actions"), JList(<<>>)))

_render_hero_kpis(r) ==
    Iterate(GetOr(_render_hero_hero(r), "kpis", JList(<<>>)))

_render_hero_card(item) ==
    <<"<div class=\"hero-kpi\"", ">", "<div class=\"label\"", ">">>
    \o _escape_html(Get(item, "label")) \o <<"</div>", "<div class=\"value\"", ">">>
    \o _escape_html(Get(item, "value")) \o <<"</div>">>
    \o (IF Truthy(Get(item, "delta"))
        THEN <<"<span", " ", "class=\"", "delta", " ",
               StrOf(Or(Get(item, "tone"), W("neutral"))), "\"", ">">>
             \o _escape_html(Get(item, "delta")) \o <<"</span>">>
        ELSE <<>>)
    \o <<"</div>">>

\* [ok, html]
_render_hero(r) ==
    IF ~Truthy(_render_hero_hero(r)) THEN [ok |-> TRUE, html |-> <<>>]
    ELSE IF ~IsDict(_render_hero_hero(r)) \/ ~_render_hero_highlights(r).ok \/ ~_render_hero_actions(r).ok \/ ~_render_hero_kpis(r).ok
            \/ \E i \in 1..Len(_render_hero_kpis(r).e) : ~IsDict(_render_hero_kpis(r).e[i])
    THEN [ok |-> FALSE, html |-> <<>>]
    ELSE [ok |-> TRUE,
          html |-> <<"<section class=\"hero-section-combined\"", ">",
                     "<div class=\"hero-header\"", ">",
                     "<p class=\"hero-hint\"", ">">> \o OverviewHint
                   \o <<"</p>", "<h1 class=\"hero-title\"", ">">> \o _escape_html(_render_hero_title(r))
                   \o <<"</h1>", "<p class=\"hero-subtitle\"", ">">>
                   \o _escape_html(_render_hero_subtitle(r))
                   \o <<"</p>", "</div>", "<div class=\"hero-body\"", ">",
                        "<div class=\"hero-content\"", ">">>
                   \o (IF Truthy(_render_hero_summary(r))
                       THEN <<"<p class=\"hero-summary\"", ">">> \o _escape_html(_render_hero_summary(r))
                            \o <<"</p>">>
                       ELSE <<>>)
                   \o <<"<ul class=\"hero-highlights\"", ">">>
                   \o Concat([i \in 1..Len(_render_hero_highlights(r).e) |->
                                 <<"<li>", "<span class=\"badge\"", ">">>
                                 \o _escape_html(_render_hero_highlights(r).e[i]) \o <<"</span>", "</li>">>])
                   \o <<"</ul>", "<div class=\"hero-actions\"", ">">>
                   \o Concat([i \in 1..Len(_render_hero_actions(r).e) |->
                                 <<"<button class=\"ghost-btn\" type=\"button\"", ">">>
                                 \o _escape_html(_render_hero_actions(r).e[i]) \o <<"</button>">>])
                   \o <<"</div>", "</div>", "<div class=\"hero-side\"", ">">>
                   \o Concat([i \in 1..Len(_render_hero_kpis(r).e) |-> _render_hero_card(_render_hero_kpis(r).e[i])])
                   \o <<"</div>", "</div>", "</section>">>]

\* The body around the parts rendered so far; the export overlay and the
\* hydration script are constant texts.
BodyWithoutScripts(r, parts) ==
    <<"<body>">> \o parts.header \o <<"<div id=\"export-overlay\"", ">", "</div>", "<main>">>
    \o parts.hero \o parts.toc_section \o Concat(parts.chapters) \o <<"</main>">>
    \o <<"<script>", "hydration", "</script>", "</body>">>

_render_body(r, parts) ==
    <<"<body>">> \o parts.header \o <<"<div id=\"export-overlay\"", ">", "</div>", "<main>">>
    \o parts.hero \o parts.toc_section \o Concat(parts.chapters) \o <<"</main>">>
    \o Concat(r.widget_scripts) \o <<"<script>", "hydration", "</script>", "</body>">>

\* The charts of a value: the widget blocks of a chart type anywhere in it.
\* The validator is asked once for each chart that is rendered.
RECURSIVE CountCharts(_), CountMembers(_, _)
CountMembers(d, keys) ==
    IF keys = {} THEN 0
    ELSE LET key == CHOOSE x \in keys : TRUE
         IN  CountCharts(d.f[key]) + CountMembers(d, keys \ {key})

CountCharts(v) ==
    IF IsDict(v)
    THEN (IF TypeOf(v) = "widget" /\ IsChartType(GetOr(v, "widgetType", JStr(<<>>)))
          THEN 1 ELSE 0) + CountMembers(v, DOMAIN v.f)
    ELSE IF IsList(v)
    THEN CountMembers([f |-> v.e], DOMAIN v.e)
    ELSE 0

(***************************************************************************)
(* The Documents rendered: chapters of up to MaxBlocks blocks, drawn from  *)
(* well-formed blocks, blocks with serialized payloads in text fields and  *)
(* the malformed shapes the producer is known to emit.                     *)
(***************************************************************************)
Run(text) == JDict([text |-> JStr(text)])
Paragraph(runs) == JDict([type |-> W("paragraph"), inlines |-> JList(runs)])
Heading(level, anchor, text) ==
    JDict([type |-> W("heading"), level |-> JInt(level), anchor |-> W(anchor),
           text |-> JStr(text)])
ChartType == JStr(<<"chart", ".", "js", "/", "bar">>)
Chart(id) == JDict([type |-> W("widget"), widgetType |-> ChartType, widgetId |-> W(id)])
ChartData ==
    JDict([labels |-> JList(<<W("x")>>),
           datasets |-> JList(<<JDict([data |-> JList(<<JInt(1)>>)])>>)])

\* '{"type": "hr"}', '{"cells": [1, 2]}', '{"foo": 1}' and '{{}}'
SerializedBlock == <<"{", "\"", "type", "\"", ":", " ", "\"", "hr", "\"", "}">>
SerializedCells == <<"{", "\"", "cells", "\"", ":", " ", "[", "1", ",", " ", "2", "]", "}">>
SerializedOther == <<"{", "\"", "foo", "\"", ":", " ", "1", "}">>
NestedBraces == <<"{", "{", "}", "}">>

\* '{"type": "paragraph", "inlines": [{"text": "{'type': 'hr'}"}]}': a
\* serialized block that holds a serialized block.
SerializedNested ==
    <<"{", "\"", "type", "\"", ":", " ", "\"", "paragraph", "\"", ",", " ",
      "\"", "inlines", "\"", ":", " ", "[", "{", "\"", "text", "\"", ":", " ",
      "\"", "{", "'", "type", "'", ":", " ", "'", "hr", "'", "}", "\"", "}", "]", "}">>

CoreBlocks ==
    {Heading(2, "h", <<"T">>),
     Paragraph(<<Run(<<"a">>)>>),
     Paragraph(<<Run(SerializedBlock)>>),
     Paragraph(<<Run(SerializedCells)>>),
     Paragraph(<<JStr(<<"a">>)>>),
     JStr(<<"a">>),
     Chart("w"),
     JDict([type |-> W("callout"),
            blocks |-> JList(<<Paragraph(<<Run(<<"a">>)>>), Chart("v")>>)])}

TableOf(texts) ==
    JDict([type |-> W("table"),
           rows |-> JList([i \in 1..Len(texts) |->
                              JDict([cells |-> JList(<<JDict([blocks |->
                                         JList(<<Paragraph(<<Run(texts[i])>>)>>)])>>)])])])

OtherBlocks ==
    {JDict([type |-> W("heading"), level |-> JInt(3), text |-> JStr(<<"T">>)]),
     Paragraph(<<Run(SerializedOther)>>),
     Paragraph(<<Run(NestedBraces)>>),
     Paragraph(<<Run(SerializedNested)>>),
     Paragraph(<<JDict([text |-> JStr(<<"a">>),
                        marks |-> JList(<<JDict([type |-> W("bold")])>>)])>>),
     Set(Chart("w"), "data", ChartData),
     JDict([type |-> W("foo")]),
     JDict([inlines |-> JList(<<Run(<<"a">>)>>)]),
     JDict([type |-> W("hr")]),
     JDict([type |-> W("toc")]),
     JDict([type |-> W("list"), items |-> JList(<<JList(<<Paragraph(<<Run(<<"a">>)>>)>>)>>)]),
     JDict([type |-> W("blockquote"), blocks |-> JList(<<Paragraph(<<Run(<<"a">>)>>)>>)]),
     JDict([type |-> W("kpiGrid"),
            items |-> JList(<<JDict([label |-> W("k"), value |-> JInt(1)])>>)]),
     TableOf(<<<<"A">>, <<"B">>, <<"1">>, <<"2">>>>),
     TableOf(<<<<"A">>>>)}

Chapter(id, anchor, blocks) ==
    JDict([chapterId |-> W(id), anchor |-> W(anchor), blocks |-> JList(blocks)])

TocOf(entry) == JDict([toc |-> JDict([customEntries |-> JList(<<entry>>)])])

\* No metadata; a custom TOC entry with the anchor of a chapter, with an
\* anchor no chapter or heading has, and with a chapterId only; a hero
\* with the KPI of the pool's kpiGrid.
Metadatas ==
    {JDict(<<>>),
     TocOf(JDict([anchor |-> W("a"), title |-> W("A")])),
     TocOf(JDict([anchor |-> W("nope"), title |-> W("N")])),
     TocOf(JDict([chapterId |-> W("c2"), title |-> W("B")])),
     JDict([title |-> W("R"),
            hero |-> JDict([kpis |-> JList(<<JDict([label |-> W("k"), value |-> JInt(1)])>>)])])}

\* Charts of a chapter that has data of its own: without data, with a
\* series, with a series of no point and with no series.
OwnData ==
    JDict([labels |-> JList(<<W("y")>>),
           datasets |-> JList(<<JDict([data |-> JList(<<JInt(2)>>)])>>)])

ChartChapters ==
    {Set(Chapter("c1", "a", charts), "data", ChartData) :
        charts \in {<<Chart("w")>>,
                    <<Set(Chart("w"), "data", OwnData)>>,
                    <<Set(Chart("w"), "data", JDict([datasets |-> JList(<<JDict([data |-> JList(<<>>)])>>)]))>>,
                    <<Set(Chart("w"), "data", JDict([datasets |-> JList(<<>>)]))>>,
                    <<Chart("w"), Set(Chart("v"), "data", OwnData)>>}}

\* [metadata, chapters]: the Documents handed to render.
Documents(maxBlocks) ==
    {[metadata |-> JDict(<<>>), chapters |-> <<chapter>>] : chapter \in ChartChapters}
    \cup {[metadata |-> JDict(<<>>), chapters |-> <<Chapter("c1", "a", blocks)>>] :
        blocks \in SeqsUpTo(CoreBlocks, maxBlocks)}
    \cup {[metadata |-> metadata, chapters |-> <<Chapter("c1", "a", <<block>>)>>] :
             metadata \in Metadatas, block \in OtherBlocks}
    \cup {[metadata |-> metadata,
           chapters |-> <<Chapter("c1", "a", <<first>>),
                          Set(Chapter("c2", "b", <<Chart("w")>>), "data", ChartData)>>] :
             metadata \in Metadatas, first \in CoreBlocks}

(***************************************************************************)
(* render, in the steps of its body.                                       *)
(***************************************************************************)
NoOther ==
    [pc |-> "idle", out |-> NoOutput,
     document |-> [metadata |-> JDict(<<>>), chapters |-> <<>>],
     given |-> [metadata |-> JDict(<<>>), chapters |-> <<>>], overlapped |-> FALSE]

RenderIdle ==
    /\ heap = <<>>
    /\ document = [metadata |-> JDict(<<>>), chapters |-> <<>>]
    /\ given = [metadata |-> JDict(<<>>), chapters |-> <<>>]
    /\ renderer = NewRenderer
    /\ pc = "idle"
    /\ out = NoOutput
    /\ calls = 0
    /\ other = NoOther

\* The prepared chapters as values.
Prepared == [i \in 1..Len(renderer.chapters) |-> heap[renderer.chapters[i]]]

StartedKeepingCounter(r, d, p) ==
    [r EXCEPT !.widget_scripts = <<>>,
              !.heading_counter = 0,
              !.metadata = Or(d.metadata, JDict(<<>>)),
              !.toc_rendered = FALSE,
              !.chapters = IF p.ok THEN p.chapters ELSE @]

\* The instance after lines 239-246 of a call with Document d, p being what
\* _prepare_chapters returned.
Started(r, d, p) ==
    [r EXCEPT !.widget_scripts = <<>>,
              !.chart_counter = 0,
              !.heading_counter = 0,
              !.metadata = Or(d.metadata, JDict(<<>>)),
              !.toc_rendered = FALSE,
              !.chapters = IF p.ok THEN p.chapters ELSE @]

StartWithoutReset(d, raw_chapters, p) ==
    /\ document' = [metadata |-> d.metadata, chapters |-> raw_chapters]
    /\ given' = d
    /\ heap' = p.heap
    /\ renderer' = [renderer EXCEPT !.metadata = Or(d.metadata, JDict(<<>>)),
                                    !.chapters = IF p.ok THEN p.chapters ELSE @]
    /\ pc' = IF p.ok THEN "prepared" ELSE "raised"
    /\ out' = NoOutput
    /\ calls' = calls + 1

RenderStart_start(d, raw_chapters, p) ==
    /\ document' = [metadata |-> d.metadata, chapters |-> raw_chapters]
    /\ given' = d
    /\ heap' = p.heap
    /\ renderer' = Started(renderer, d, p)
    /\ pc' = IF p.ok THEN "prepared" ELSE "raised"
    /\ out' = NoOutput
    /\ calls' = calls + 1

\* render is called with a Document: the state is reset and the chapters
\* are prepared.
RenderStart ==
    /\ pc = "idle"
    /\ \E d \in Documents(MaxBlocks) :
          RenderStart_start(d, [i \in 1..Len(d.chapters) |-> i],
                _prepare_chapters(d.chapters, [i \in 1..Len(d.chapters) |-> i]))
    /\ UNCHANGED other

(***************************************************************************)
(* Calls on an instance that was used before: up to MaxCalls calls, each   *)
(* made when the one before has returned.                                  *)
(***************************************************************************)
MaxCalls == 2

\* One-block chapters of every block of the pool, and the two-chapter
\* Documents with each metadata.
RepeatDocuments ==
    {[metadata |-> JDict(<<>>), chapters |-> <<Chapter("c1", "a", <<block>>)>>] :
        block \in CoreBlocks \cup OtherBlocks}
    \cup {[metadata |-> metadata,
           chapters |-> <<Chapter("c1", "a", <<Heading(2, "h", <<"T">>)>>),
                          Set(Chapter("c2", "b", <<Chart("w")>>), "data", ChartData)>>] :
             metadata \in Metadatas}

RenderCall ==
    /\ pc \in {"idle", "done"}
    /\ calls < MaxCalls
    /\ \E d \in RepeatDocuments :
          RenderStart_start(d, [i \in 1..Len(d.chapters) |-> i],
                _prepare_chapters(d.chapters, [i \in 1..Len(d.chapters) |-> i]))
    /\ UNCHANGED other

RenderIndex_signed(r3, hero) ==
    IF ~IsDict(hero) THEN [ok |-> FALSE, r |-> r3]
    ELSE [ok |-> TRUE,
          r |-> [r3 EXCEPT !.hero_kpi_signature =
                               _kpi_signature_from_items(Get(hero, "kpis"))]]

RenderIndex_listed(r2, toc) ==
    IF ~toc.ok THEN [ok |-> FALSE, r |-> r2]
    ELSE RenderIndex_signed([r2 EXCEPT !.toc_entries = toc.entries,
                           !.chart_validation_stats = EmptyStats],
                Or(Get(r2.metadata, "hero"), JDict(<<>>)))

RenderIndex_labelled(r1, labels, prepared) ==
    IF ~labels.ok THEN [ok |-> FALSE, r |-> r1]
    ELSE RenderIndex_listed([r1 EXCEPT !.heading_label_map = labels.map],
                _collect_toc_entries([r1 EXCEPT !.heading_label_map = labels.map],
                                     prepared))

\* [ok, r]: the instance after lines 247-268 on the prepared chapters.
Indexed(r, prepared) ==
    RenderIndex_labelled([r EXCEPT !.chapter_anchor_map = ChapterAnchorMap(prepared)],
                HeadingLabelsOf(prepared), prepared)

RenderIndex_stored(indexed) ==
    /\ renderer' = indexed.r
    /\ pc' = IF indexed.ok THEN "indexed" ELSE "raised"

\* The anchor map, the heading labels, the TOC entries, the statistics and
\* the KPI signature of the hero.
RenderIndex ==
    /\ pc = "prepared"
    /\ RenderIndex_stored(Indexed(renderer, Prepared))
    /\ UNCHANGED <<heap, document, given, out, calls, other>>

RenderHead_written(hero, toc) ==
    IF ~hero.ok THEN pc' = "raised" /\ UNCHANGED <<renderer, out>>
    ELSE /\ out' = [out EXCEPT
                       !.head = _render_head(
                                    Or(Or(Get(renderer.metadata, "title"),
                                          Get(renderer.metadata, "query")),
                                       JStr(DefaultTitle))),
                       !.header = _render_header(renderer),
                       !.hero = hero.html,
                       !.toc_section = toc.html]
         /\ renderer' = toc.r
         /\ pc' = "body"

\* The head, and of the body the header, the hero and the TOC section.
RenderHead ==
    /\ pc = "indexed"
    /\ RenderHead_written(_render_hero(renderer), _render_toc_section(renderer))
    /\ UNCHANGED <<heap, document, given, calls, other>>

RenderChapter_rendered(chapter, done) ==
    /\ heap' = [heap EXCEPT ![chapter] = done.chapter]
    /\ renderer' = done.r
    /\ IF done.ok
       THEN pc' = "body" /\ out' = [out EXCEPT !.chapters = Append(@, done.html)]
       ELSE pc' = "raised" /\ UNCHANGED out

RenderChapter_asking(chapter, asked, charts) ==
    \E verdicts \in [(asked + 1)..(asked + charts) -> Verdicts] :
       RenderChapter_rendered(chapter, _render_chapter(renderer, heap[chapter], verdicts))

RenderChapter_next(chapter) ==
    RenderChapter_asking(chapter, renderer.chart_validation_stats.total,
           CountCharts(heap[chapter]))

\* The next chapter is rendered; the validator and the repairer answer for
\* each of its charts.
RenderChapter ==
    /\ pc = "body"
    /\ Len(out.chapters) < Len(renderer.chapters)
    /\ RenderChapter_next(renderer.chapters[Len(out.chapters) + 1])
    /\ UNCHANGED <<document, given, calls, other>>

\* The page is put together and returned.
RenderFinish ==
    /\ pc = "body"
    /\ Len(out.chapters) = Len(renderer.chapters)
    /\ out' = [out EXCEPT !.html = <<"<!DOCTYPE html>", "<html lang=\"zh-CN\" class=\"no-js\"",
                                     ">">>
                                   \o out.head \o _render_body(renderer, out)
                                   \o <<"</html>">>]
    /\ pc' = "done"
    /\ UNCHANGED <<heap, document, given, renderer, calls, other>>


(***************************************************************************)
(* Two calls on one instance whose steps interleave.  The instance state   *)
(* (renderer) and the objects (heap) are shared; pc, out, document and     *)
(* given are the locals of the call that is running, other holds those of  *)
(* the call that is suspended, and Switch hands the processor over.  The   *)
(* interleavings are those of the steps of this model, where the           *)
(* interpreter can switch between any two bytecodes: no switch is taken    *)
(* between lines 264-268 and the rendering of the head, which uses the     *)
(* title computed there, and a call starts only when the chapter loop of   *)
(* the other (line 432) has not begun or stays complete.                   *)
(***************************************************************************)
\* A chapter with a heading without an anchor and a chart, one with a
\* paragraph only, and one with an anchored heading and a chart with data.
OverlapDocuments ==
    {[metadata |-> JDict(<<>>), chapters |-> <<Chapter("c1", "a", blocks)>>] :
        blocks \in {<<JDict([type |-> W("heading"), level |-> JInt(3), text |-> JStr(<<"T">>)]),
                      Chart("w")>>,
                    <<Paragraph(<<Run(<<"a">>)>>)>>,
                    <<Heading(2, "h", <<"T">>), Set(Chart("v"), "data", ChartData)>>}}

Active(position) == position \notin {"idle", "done", "raised"}

LoopUntouchedBy(d) ==
    (other.pc = "body" /\ other.out.chapters # <<>>)
        => /\ Len(other.out.chapters) = Len(renderer.chapters)
           /\ Len(d.chapters) = Len(renderer.chapters)

OverlapStart ==
    /\ pc = "idle"
    /\ \E d \in OverlapDocuments :
          /\ LoopUntouchedBy(d)
          /\ RenderStart_start(d, [i \in 1..Len(d.chapters) |-> i],
                _prepare_chapters(d.chapters, [i \in 1..Len(d.chapters) |-> i]))
    /\ other' = [other EXCEPT !.overlapped = @ \/ Active(other.pc)]

Switch ==
    /\ pc # "indexed"
    /\ pc # "idle" \/ other.pc # "idle"
    /\ pc' = other.pc
    /\ out' = other.out
    /\ document' = other.document
    /\ given' = other.given
    /\ other' = [pc |-> pc, out |-> out, document |-> document, given |-> given,
                 overlapped |-> other.overlapped \/ (Active(pc) /\ Active(other.pc))]
    /\ UNCHANGED <<heap, renderer, calls>>

(***************************************************************************)
(* The text chain of an inline run.  A run's text is a str or an object    *)
(* that has a text of its own; objects are Python references, so a chain   *)
(* can lead back into itself.  Object 1 is the run; links[o] is the object *)
(* that is the text of object o, or 0 where the text is a str.             *)
(* render walks the chain twice: traverse of _extract_embedded_blocks when *)
(* the chapters are prepared, then the unwrapping loop of                  *)
(* _normalize_inline_payload when the run is rendered.                     *)
(***************************************************************************)
MaxObjects == 3

\* The interpreter's recursion limit (sys.getrecursionlimit()), scaled to
\* stay above the longest chain without a cycle.
RecursionLimit == MaxObjects + 2

Chains(maxObjects) == [1..maxObjects -> 0..maxObjects]

WalkIdle == walk = [links |-> <<>>, phase |-> "idle", at |-> 0, depth |-> 0, seen |-> {}]

\* traverse(node) on a dict whose text is a dict: traverse(value).
Traverse ==
    /\ walk.phase = "traverse"
    /\ walk.links[walk.at] # 0
    /\ walk.depth < RecursionLimit
    /\ walk' = [walk EXCEPT !.at = walk.links[walk.at], !.depth = @ + 1]

\* The call that would pass the recursion limit raises RecursionError,
\* which nothing in render catches.
Exhaust ==
    /\ walk.phase = "traverse"
    /\ walk.links[walk.at] # 0
    /\ walk.depth = RecursionLimit
    /\ walk' = [walk EXCEPT !.phase = "exhausted"]

\* traverse(node) on a dict whose text is a str: the calls return, and the
\* run is rendered later: text_value = run.get("text"), seen = set().
TraverseReturn ==
    /\ walk.phase = "traverse"
    /\ walk.links[walk.at] = 0
    /\ walk' = [walk EXCEPT !.phase = "unwrap", !.at = walk.links[1], !.depth = 0]

\* One turn of "while isinstance(text_value, dict)".
Unwrap ==
    /\ walk.phase = "unwrap"
    /\ walk.at # 0
    /\ walk' = IF walk.at \in walk.seen
               THEN [walk EXCEPT !.phase = "done", !.at = 0]
               ELSE [walk EXCEPT !.seen = @ \cup {walk.at}, !.at = walk.links[walk.at]]

\* The loop condition fails on a str.
UnwrapEnd ==
    /\ walk.phase = "unwrap"
    /\ walk.at = 0
    /\ walk' = [walk EXCEPT !.phase = "done"]

(***************************************************************************)
(* Specifications, one per component.                                      *)
(***************************************************************************)
CleanNext ==
    CleanStep /\ UNCHANGED <<tableVars, calloutVars, labelVars, inlineVars, walkVars, renderVars>>

CleanInit ==
    /\ cleanHist \in CleanInputs(MaxTextLen)
    /\ TableIdle /\ CalloutIdle /\ LabelIdle /\ InlineIdle /\ WalkIdle
    /\ RenderIdle

SpecClean == CleanInit /\ [][CleanNext]_vars

TableNext ==
    NormalizeTable /\ UNCHANGED <<cleanVars, calloutVars, labelVars, inlineVars, walkVars, renderVars>>

TableInit ==
    /\ tableIn \in TableInputs(MaxRows)
    /\ tableOut = [done |-> FALSE, rows |-> <<>>]
    /\ CleanIdle /\ CalloutIdle /\ LabelIdle /\ InlineIdle /\ WalkIdle /\ RenderIdle

SpecTable == TableInit /\ [][TableNext]_vars


CalloutNext ==
    SplitCallout /\ UNCHANGED <<cleanVars, tableVars, labelVars, inlineVars, walkVars, renderVars>>

CalloutInit ==
    /\ calloutIn \in CalloutInputs(MaxChildren, MaxItems)
    /\ calloutOut = [done |-> FALSE, kept |-> <<>>, overflow |-> <<>>]
    /\ CleanIdle /\ TableIdle /\ LabelIdle /\ InlineIdle /\ WalkIdle /\ RenderIdle

SpecCallout == CalloutInit /\ [][CalloutNext]_vars

LabelNext ==
    ComputeLabels /\ UNCHANGED <<cleanVars, tableVars, calloutVars, inlineVars, walkVars, renderVars>>

LabelInit ==
    /\ labelIn \in LabelInputs(MaxChapters, MaxHeadings)
    /\ labelOut = [done |-> FALSE, map |-> <<>>]
    /\ CleanIdle /\ TableIdle /\ CalloutIdle /\ InlineIdle /\ WalkIdle /\ RenderIdle

SpecLabel == LabelInit /\ [][LabelNext]_vars

InlineNext ==
    NormalizeInline /\ UNCHANGED <<cleanVars, tableVars, calloutVars, labelVars, walkVars, renderVars>>

InlineInit ==
    /\ inlineIn \in InlineInputs(MaxOwnMarks)
    /\ inlineOut = [done |-> FALSE, ok |-> TRUE, text |-> JNone, marks |-> <<>>, html |-> <<>>]
    /\ CleanIdle /\ TableIdle /\ CalloutIdle /\ LabelIdle /\ WalkIdle /\ RenderIdle

SpecInline == InlineInit /\ [][InlineNext]_vars

MarksNext ==
    RenderInline /\ UNCHANGED <<cleanVars, tableVars, calloutVars, labelVars, walkVars, renderVars>>

MarksInit ==
    /\ inlineIn \in MarkedRuns(MaxMarks)
    /\ inlineOut = [done |-> FALSE, ok |-> TRUE, text |-> JNone, marks |-> <<>>, html |-> <<>>]
    /\ CleanIdle /\ TableIdle /\ CalloutIdle /\ LabelIdle /\ WalkIdle /\ RenderIdle

SpecMarks == MarksInit /\ [][MarksNext]_vars

WalkNext ==
    /\ Traverse \/ Exhaust \/ TraverseReturn \/ Unwrap \/ UnwrapEnd
    /\ UNCHANGED <<cleanVars, tableVars, calloutVars, labelVars, inlineVars, renderVars>>

WalkInit ==
    /\ walk \in {[links |-> links, phase |-> "traverse", at |-> 1, depth |-> 1, seen |-> {}] :
                    links \in Chains(MaxObjects)}
    /\ CleanIdle /\ TableIdle /\ CalloutIdle /\ LabelIdle /\ InlineIdle /\ RenderIdle

\* Each step of render is taken once it can be: the interpreter keeps
\* running the call.
SpecWalk == WalkInit /\ [][WalkNext]_vars /\ WF_vars(WalkNext)

RenderNext ==
    /\ RenderStart \/ RenderIndex \/ RenderHead \/ RenderChapter \/ RenderFinish
    /\ UNCHANGED <<cleanVars, tableVars, calloutVars, labelVars, inlineVars, walkVars>>

RenderInit ==
    /\ RenderIdle /\ CleanIdle /\ TableIdle /\ CalloutIdle /\ LabelIdle /\ InlineIdle
    /\ WalkIdle

SpecRender == RenderInit /\ [][RenderNext]_vars

RepeatNext ==
    /\ RenderCall \/ RenderIndex \/ RenderHead \/ RenderChapter \/ RenderFinish
    /\ UNCHANGED <<cleanVars, tableVars, calloutVars, labelVars, inlineVars, walkVars>>

SpecRepeat == RenderInit /\ [][RepeatNext]_vars

OverlapNext ==
    /\ OverlapStart \/ Switch \/ RenderIndex \/ RenderHead \/ RenderChapter \/ RenderFinish
    /\ UNCHANGED <<cleanVars, tableVars, calloutVars, labelVars, inlineVars, walkVars>>

SpecOverlap == RenderInit /\ [][OverlapNext]_vars

(***************************************************************************)
(* Claims.                                                                 *)
(***************************************************************************)
\* C1: render never raises: whatever the Document, the call returns a page
\* and no exception escapes.  The code lets exceptions escape: a chapter
\* block that is a bare string, an inline run that is a bare string, a
\* serialized payload whose cells are no objects.
C1_RenderNeverRaises == pc # "raised"

\* The blocks of a chapter value, as a sequence.
BlocksOf(chapter) == Get(chapter, "blocks").e

\* C2: render leaves its input untouched: when render has returned, the
\* Document (its metadata and the chapters it names, with everything
\* reachable from them) has the value it was given with.
C2_InputUntouched ==
    pc = "done" => DocumentValue(heap, document.metadata, document.chapters) = given

\* C2's case: render has returned and has written to the copy of a chapter
\* (a text field cleared by the repair, a chart normalized).
C2_Witness ==
    /\ pc = "done"
    /\ \E i \in 1..Len(renderer.chapters) : heap[renderer.chapters[i]] # given.chapters[i]

RECURSIVE ClearedFrom(_, _)
\* after is before with some text fields, at any depth, set to "".
ClearedFrom(before, after) ==
    IF IsDict(before)
    THEN /\ IsDict(after)
         /\ DOMAIN after.f = DOMAIN before.f
         /\ \A key \in DOMAIN before.f :
               \/ key = "text" /\ IsStr(before.f[key]) /\ after.f[key] = JStr(<<>>)
               \/ ClearedFrom(before.f[key], after.f[key])
    ELSE IF IsList(before)
    THEN /\ IsList(after)
         /\ Len(after.e) = Len(before.e)
         /\ \A i \in 1..Len(before.e) : ClearedFrom(before.e[i], after.e[i])
    ELSE after = before

RECURSIVE InOrderWithin(_, _)
\* Every block of input is, in the order of input, a block of output.
InOrderWithin(input, output) ==
    IF input = <<>> THEN TRUE
    ELSE IF output = <<>> THEN FALSE
    ELSE IF ClearedFrom(Head(input), Head(output))
    THEN InOrderWithin(Tail(input), Tail(output))
    ELSE InOrderWithin(input, Tail(output))

\* C3: block repair loses no block: the blocks the repair returns for a
\* chapter hold every block it was given, in the given order (a block with
\* its text fields possibly cleared), and so are at least as many.
C3_RepairLosesNoBlock ==
    pc = "prepared" =>
        \A c \in 1..Len(given.chapters) :
            /\ InOrderWithin(BlocksOf(given.chapters[c]), BlocksOf(Prepared[c]))
            /\ Len(BlocksOf(Prepared[c])) >= Len(BlocksOf(given.chapters[c]))

\* C3's case: the repair was given two blocks, cleared the text of one and
\* returned more blocks than it was given.
C3_Witness ==
    /\ pc = "prepared"
    /\ \E c \in 1..Len(given.chapters) :
          /\ Len(BlocksOf(given.chapters[c])) = 2
          /\ Len(BlocksOf(Prepared[c])) > 2
          /\ BlocksOf(Prepared[c])[1] # BlocksOf(given.chapters[c])[1]

\* The anchors of the chapters and of the blocks of chapters.
AnchorsOf(chapters) ==
    {StrOf(Get(chapters[c], "anchor")) : c \in 1..Len(chapters)}
    \cup UNION {{StrOf(Get(BlocksOf(chapters[c])[j], "anchor")) :
                    j \in 1..Len(BlocksOf(chapters[c]))} : c \in 1..Len(chapters)}

\* C5: TOC reference integrity: once the TOC entries are collected, the
\* anchor of every entry is the anchor of a chapter or of a heading block of
\* the repaired chapters.  The code keeps a custom entry whose anchor is
\* found nowhere: it only logs a warning.
C5_TocAnchorsResolve ==
    pc = "indexed" =>
        \A i \in 1..Len(renderer.toc_entries) :
            renderer.toc_entries[i].anchor \in AnchorsOf(Prepared) \ {""}

\* The HTML holds a heading element with this id and this text.
HeadingElementIn(html, id, text) ==
    \E p \in 1..Len(html) :
        /\ html[p] \in {"<h2", "<h3", "<h4", "<h5", "<h6"}
        /\ p + 6 + Len(text) <= Len(html)
        /\ SubSeq(html, p + 1, p + 5) = <<" ", "id=\"", id, "\"", ">">>
        /\ SubSeq(html, p + 6, p + 5 + Len(text)) = text
        /\ html[p + 6 + Len(text)] \in {"<small>", "</h2>", "</h3>", "</h4>", "</h5>", "</h6>"}

\* metadata.toc holds no custom entries: the TOC is collected from the
\* heading blocks.
NoCustomEntries ==
    ~Truthy(Get(Or(Get(renderer.metadata, "toc"), JDict(<<>>)), "customEntries"))

\* C11: body and TOC never diverge: in a render call without custom TOC
\* entries, every TOC entry collected from a heading block has a rendered
\* heading element whose id is the entry's anchor and whose text is the
\* entry's text.  A heading without an anchor of its own is listed under the
\* chapter's anchor with the chapter's label and rendered as heading-N with
\* its bare text.
C11_BodyMatchesToc ==
    (pc = "done" /\ NoCustomEntries) =>
        \A k \in 1..Len(renderer.toc_entries) :
            \E c \in 1..Len(out.chapters) :
                HeadingElementIn(out.chapters[c],
                                 _escape_attr(W(renderer.toc_entries[k].anchor)),
                                 HtmlEscape(renderer.toc_entries[k].text, FALSE))

\* The positions of the chart widgets among the blocks of a chapter.
ChartBlocksAt(chapter) ==
    {j \in 1..Len(BlocksOf(chapter)) :
        /\ IsDict(BlocksOf(chapter)[j])
        /\ TypeOf(BlocksOf(chapter)[j]) = "widget"
        /\ IsChartType(GetOr(BlocksOf(chapter)[j], "widgetType", JStr(<<>>)))}

DatasetsOf(holder) ==
    IF IsDict(holder) /\ IsDict(Get(holder, "data")) THEN Get(Get(holder, "data"), "datasets")
    ELSE JNone

\* The data has a dataset with a non-empty data array.
HasSeries(data) ==
    /\ IsDict(data)
    /\ IsList(Get(data, "datasets"))
    /\ \E i \in 1..Len(Get(data, "datasets").e) :
           /\ IsDict(Get(data, "datasets").e[i])
           /\ IsList(Get(Get(data, "datasets").e[i], "data"))
           /\ Get(Get(data, "datasets").e[i], "data").e # <<>>

\* C12: chapter-level dataset fallback: when a chapter whose data.datasets
\* is a non-empty list has been rendered, each of its chart widgets that had
\* no dataset with a non-empty data array holds the chapter's datasets, and
\* each that had one holds its own datasets still.
C12_ChapterFallback ==
    [][(pc = "body" /\ pc' = "body" /\ Len(out'.chapters) = Len(out.chapters) + 1
        /\ IsList(DatasetsOf(heap[renderer.chapters[Len(out.chapters) + 1]]))
        /\ DatasetsOf(heap[renderer.chapters[Len(out.chapters) + 1]]).e # <<>>)
       => \A j \in ChartBlocksAt(heap[renderer.chapters[Len(out.chapters) + 1]]) :
              DatasetsOf(BlocksOf(heap'[renderer.chapters[Len(out.chapters) + 1]])[j])
              = IF HasSeries(Get(BlocksOf(heap[renderer.chapters[Len(out.chapters) + 1]])[j],
                                 "data"))
                THEN DatasetsOf(BlocksOf(heap[renderer.chapters[Len(out.chapters) + 1]])[j])
                ELSE DatasetsOf(heap[renderer.chapters[Len(out.chapters) + 1]])]_vars

\* A rendered chapter with datasets holds a chart that was given a series of
\* no point and has the chapter's datasets, and the render call is finished.
C12_Witness ==
    /\ pc = "done"
    /\ \E c \in 1..Len(given.chapters) :
           /\ IsList(DatasetsOf(given.chapters[c])) /\ DatasetsOf(given.chapters[c]).e # <<>>
           /\ \E j \in ChartBlocksAt(given.chapters[c]) :
                  /\ IsList(DatasetsOf(BlocksOf(given.chapters[c])[j]))
                  /\ DatasetsOf(BlocksOf(given.chapters[c])[j]).e # <<>>
                  /\ ~HasSeries(Get(BlocksOf(given.chapters[c])[j], "data"))
                  /\ DatasetsOf(BlocksOf(Prepared[c])[j]) = DatasetsOf(given.chapters[c])

CanvasAt(html) == {p \in 1..Len(html) : html[p] = "<canvas"}

ConfigAt(html) ==
    {p \in 1..Len(html) : html[p] = "<script" /\ html[p + 2] = "type=\"application/json\""}

\* The n-th element of a set of positions is the one with n - 1 before it.
NthOf(positions, n, p) ==
    p \in positions /\ Cardinality({q \in positions : q < p}) = n - 1

\* C14: in the document of a finished render, the k widgets the call
\* rendered have left exactly k canvases and k JSON script tags; the n-th
\* canvas has id chart-n and data-config-id chart-config-n, and the n-th
\* script tag has id chart-config-n, for n = 1..k.
C14_WidgetWire ==
    pc = "done" =>
        /\ Cardinality(CanvasAt(out.html)) = renderer.chart_counter
        /\ Cardinality(ConfigAt(out.html)) = renderer.chart_counter
        /\ \A n \in 1..renderer.chart_counter :
              /\ \E p \in CanvasAt(out.html) :
                    /\ NthOf(CanvasAt(out.html), n, p)
                    /\ out.html[p + 2] = "id=\""
                    /\ out.html[p + 3] = KeyOf(<<"chart", "-">> \o Decimal(n))
                    /\ out.html[p + 6] = "data-config-id=\""
                    /\ out.html[p + 7] = KeyOf(<<"chart", "-", "config", "-">> \o Decimal(n))
              /\ \E p \in ConfigAt(out.html) :
                    /\ NthOf(ConfigAt(out.html), n, p)
                    /\ out.html[p + 4] = "id=\""
                    /\ out.html[p + 5] = KeyOf(<<"chart", "-", "config", "-">> \o Decimal(n))

\* Two widgets rendered in one call, one that passed validation and one
\* whose repair failed.
C14_Witness ==
    /\ pc = "done"
    /\ renderer.chart_counter = 2
    /\ renderer.chart_validation_stats.valid = 1
    /\ renderer.chart_validation_stats.failed = 1

\* The object a run's text decodes to, JNone when it decodes to none.
DecodedObject_of(stripped, strict) ==
    IF stripped = <<>> \/ stripped[1] # "{" \/ stripped[Len(stripped)] # "}" THEN JNone
    ELSE IF strict.st = "ok" THEN strict.v
    ELSE IF literal_eval(stripped).st = "ok" THEN literal_eval(stripped).v
    ELSE JNone

DecodedObject(run) ==
    IF IsDict(run) /\ IsStr(Get(run, "text"))
    THEN DecodedObject_of(Strip(Get(run, "text").s), json_loads(Strip(Get(run, "text").s)))
    ELSE JNone

IsInlineObject(object) ==
    /\ Has(object, "text") \/ Has(object, "marks")
    /\ Has(object, "type") => Get(object, "type") \in {W("inline"), W("text")}

\* C15: for a run whose text decodes to an object: with only sentinel keys
\* the resolved text is empty; otherwise, for an object with text and/or
\* marks whose type, when present, is inline or text, the resolved text is
\* the object's text (when it has one) and the marks are the run's own
\* followed by the object's; in every case the resolved text is a string.
C15_InlineResolution ==
    (inlineOut.done /\ inlineOut.ok /\ IsDict(DecodedObject(inlineIn))) =>
        /\ IsStr(inlineOut.text)
        /\ DOMAIN DecodedObject(inlineIn).f \subseteq SentinelKeys
              => inlineOut.text = JStr(<<>>)
        /\ (~(DOMAIN DecodedObject(inlineIn).f \subseteq SentinelKeys)
            /\ IsInlineObject(DecodedObject(inlineIn)))
              => /\ Truthy(Get(DecodedObject(inlineIn), "text"))
                      => inlineOut.text = Get(DecodedObject(inlineIn), "text")
                 /\ inlineOut.marks
                      = Get(inlineIn, "marks").e
                        \o (IF IsList(Get(DecodedObject(inlineIn), "marks"))
                            THEN Get(DecodedObject(inlineIn), "marks").e ELSE <<>>)

\* C16: render terminates: the traversal of the prepared blocks and the
\* unwrapping loop both reach their end on every text chain, a chain that
\* leads back into itself included.
C16_WalksEnd == <>(walk.phase = "done")

\* What a fresh instance holds when a call with Document d has prepared
\* and indexed the chapters: [ok, r] and the prepared chapters.
FreshPrepared(d) == _prepare_chapters(d.chapters, [i \in 1..Len(d.chapters) |-> i])

FreshChapters(p) == [i \in 1..Len(p.chapters) |-> p.heap[p.chapters[i]]]

FreshIndexed(d) ==
    Indexed(Started(NewRenderer, d, FreshPrepared(d)), FreshChapters(FreshPrepared(d)))

\* C17: whatever calls an instance has completed before, when a call has
\* reset and indexed the instance and starts to render the page, the
\* instance and the copied chapters are the ones a fresh instance has at
\* that point for the same Document: chart index and heading counter 0,
\* TOC-rendered flag cleared, no widget script, validation counters 0.
C17_StateScoped ==
    pc = "indexed" =>
        /\ renderer = FreshIndexed(given).r
        /\ heap = FreshPrepared(given).heap
        /\ out = NoOutput
        /\ renderer.chart_counter = 0 /\ renderer.heading_counter = 0
        /\ ~renderer.toc_rendered /\ renderer.widget_scripts = <<>>
        /\ renderer.chart_validation_stats = EmptyStats

\* A later call is about to render the page.
C17_Witness == pc = "indexed" /\ calls >= 2

\* The canvases and the JSON script tags of a page are numbered 1..k in
\* order, each canvas naming the script tag of its number.
ChartsNumbered(html) ==
    /\ Cardinality(ConfigAt(html)) = Cardinality(CanvasAt(html))
    /\ \A n \in 1..Cardinality(CanvasAt(html)) :
          /\ \E p \in CanvasAt(html) :
                /\ NthOf(CanvasAt(html), n, p)
                /\ html[p + 3] = KeyOf(<<"chart", "-">> \o Decimal(n))
                /\ html[p + 7] = KeyOf(<<"chart", "-", "config", "-">> \o Decimal(n))
          /\ \E p \in ConfigAt(html) :
                /\ NthOf(ConfigAt(html), n, p)
                /\ html[p + 5] = KeyOf(<<"chart", "-", "config", "-">> \o Decimal(n))

\* The headings of a page that carry a synthetic id (heading-N), by position.
SyntheticAt(html) ==
    {p \in 1..Len(html) :
        /\ html[p] \in {"<h2", "<h3", "<h4", "<h5", "<h6"}
        /\ \E n \in 1..(2 * MaxBlocks) : html[p + 3] = KeyOf(<<"heading", "-">> \o Decimal(n))}

HeadingsNumbered(html) ==
    \A n \in 1..Cardinality(SyntheticAt(html)) :
        \E p \in SyntheticAt(html) :
            /\ NthOf(SyntheticAt(html), n, p)
            /\ html[p + 3] = KeyOf(<<"heading", "-">> \o Decimal(n))

\* The page has a TOC exactly if its Document has TOC entries.
TocPresent(page, d) ==
    FreshIndexed(d).ok =>
        (page.toc_section # <<>> <=> FreshIndexed(d).r.toc_entries # <<>>)

\* C18: the per-instance state is shared by two calls whose steps
\* interleave.  A call that ran without the other one taking a step returns
\* a page with charts and synthetic headings numbered from 1 without a gap,
\* with the script tag of every canvas and with its TOC; the witness is a
\* page returned by a call that overlapped with the other, which skips
\* chart-1 and heading-1 and has no TOC although its Document has entries.
C18_HarmNeedsOverlap ==
    (pc = "done" /\ ~other.overlapped) =>
        /\ ChartsNumbered(out.html)
        /\ HeadingsNumbered(out.html)
        /\ TocPresent(out, given)

C18_Witness ==
    /\ pc = "done"
    /\ other.overlapped
    /\ ~ChartsNumbered(out.html)
    /\ ~HeadingsNumbered(out.html)
    /\ ~TocPresent(out, given)

\* A page that lacks the script tag of one of its canvases.
C18_ScriptMissing ==
    /\ pc = "done"
    /\ other.overlapped
    /\ Cardinality(ConfigAt(out.html)) < Cardinality(CanvasAt(out.html))

\* The raw-JSON debug block of a block occurs in a chapter's HTML.
UnknownBlockIn(html, text) ==
    \E p \in 1..Len(html) :
        /\ p + 2 + Len(text) <= Len(html)
        /\ SubSeq(html, p, p + 1) = <<"<pre class=\"unknown-block\"", ">">>
        /\ SubSeq(html, p + 2, p + 1 + Len(text)) = text
        /\ html[p + 2 + Len(text)] = "</pre>"

\* C19: in a finished render, every block object of a chapter whose type
\* is none of the 13 known types, a block without a type included, has its
\* raw-JSON debug block in the HTML of the chapter.
C19_UnknownVisible ==
    pc = "done" =>
        \A c \in 1..Len(renderer.chapters) :
            \A j \in 1..Len(BlocksOf(heap[renderer.chapters[c]])) :
                (/\ IsDict(BlocksOf(heap[renderer.chapters[c]])[j])
                 /\ ~_render_block_handled(TypeOf(BlocksOf(heap[renderer.chapters[c]])[j])))
                    => UnknownBlockIn(out.chapters[c],
                            HtmlEscape(json_dumps(BlocksOf(heap[renderer.chapters[c]])[j]), FALSE))

\* The block {"type": "foo"} is shown as a debug block.
C19_Shown ==
    /\ pc = "done"
    /\ \E c \in 1..Len(renderer.chapters) :
          /\ \E j \in 1..Len(BlocksOf(heap[renderer.chapters[c]])) :
                BlocksOf(heap[renderer.chapters[c]])[j] = JDict([type |-> W("foo")])
          /\ UnknownBlockIn(out.chapters[c],
                  HtmlEscape(json_dumps(JDict([type |-> W("foo")])), FALSE))

\* The Document has one chapter, of one heading block and one paragraph block.
MinimalDocument ==
    /\ Len(given.chapters) = 1
    /\ Len(BlocksOf(given.chapters[1])) = 2
    /\ IsDict(BlocksOf(given.chapters[1])[1]) /\ TypeOf(BlocksOf(given.chapters[1])[1]) = "heading"
    /\ IsDict(BlocksOf(given.chapters[1])[2]) /\ TypeOf(BlocksOf(given.chapters[1])[2]) = "paragraph"

HeadingTagAt(html) == {p \in 1..Len(html) : html[p] \in {"<h2", "<h3", "<h4", "<h5", "<h6"}}

ParagraphTagAt(html) == {p \in 1..Len(html) : html[p] = "<p>"}

\* C20: the page of a Document with one chapter of one heading and one
\* paragraph has, in the chapter, exactly one heading tag, whose id is the
\* chapter's computed anchor (the id of its section), and exactly one
\* paragraph tag.
C20_MinimalDocument ==
    (pc = "done" /\ MinimalDocument) =>
        /\ Cardinality(HeadingTagAt(out.chapters[1])) = 1
        /\ \A p \in HeadingTagAt(out.chapters[1]) :
              out.chapters[1][p + 3] = _render_chapter_section_id(given.chapters[1])
        /\ Cardinality(ParagraphTagAt(out.chapters[1])) = 1

\* The same without the id: one heading tag and one paragraph tag.
C20_OneOfEach ==
    (pc = "done" /\ MinimalDocument) =>
        /\ Cardinality(HeadingTagAt(out.chapters[1])) = 1
        /\ Cardinality(ParagraphTagAt(out.chapters[1])) = 1

RECURSIVE Spliced(_)
\* The concatenation, over the blocks b in order, of b as the repair leaves
\* it followed by the repair of the blocks recovered from b.
Spliced(blocks) ==
    Concat([i \in 1..Len(blocks) |->
               <<_extract_embedded_blocks(blocks[i]).node>>
               \o Spliced(_extract_embedded_blocks(blocks[i]).extracted)])

\* C21: the blocks the repair returns for a chapter are, for each given
\* block b in order, b followed by the repair of the blocks recovered from
\* b: recovered blocks come right after the block they were recovered from
\* and before the next given block, at every depth.
C21_SplicePosition ==
    pc = "prepared" =>
        \A c \in 1..Len(given.chapters) :
            BlocksOf(Prepared[c]) = Spliced(BlocksOf(given.chapters[c]))

\* One given block, a paragraph recovered from it right after it, and the
\* rule recovered from that paragraph right after the paragraph.
C21_Witness ==
    /\ pc = "prepared"
    /\ \E c \in 1..Len(given.chapters) :
          /\ Len(BlocksOf(given.chapters[c])) = 1
          /\ Len(BlocksOf(Prepared[c])) = 3
          /\ TypeOf(BlocksOf(Prepared[c])[2]) = "paragraph"
          /\ TypeOf(BlocksOf(Prepared[c])[3]) = "hr"

\* The trimmed text starts with { or [ and json.loads or ast.literal_eval
\* returns a value for it, as it stands or wrapped in brackets.
DecodesToValue(text) ==
    /\ Strip(text) # <<>>
    /\ Strip(text)[1] \in {"{", "["}
    /\ \E target \in {Strip(text), <<"[">> \o Strip(text) \o <<"]">>} :
          \/ json_loads(target).st = "ok"
          \/ literal_eval(target).st = "ok"

\* The runs of a paragraph block, <<>> for anything else.
RunsOf(block) ==
    IF IsDict(block) /\ Has(block, "inlines") /\ IsList(Get(block, "inlines"))
    THEN Get(block, "inlines").e ELSE <<>>

\* The run's text field is a string that decodes to a value.
HoldsDecodable(run) ==
    /\ IsDict(run) /\ Has(run, "text") /\ IsStr(Get(run, "text"))
    /\ DecodesToValue(Get(run, "text").s)

\* C22: after block repair, every text field that decoded into a value is
\* the empty string, whether or not the value held a block (checked on
\* the runs of a chapter's first block, which the repair leaves first).
C22_DecodedTextCleared ==
    pc = "prepared" =>
        \A c \in 1..Len(given.chapters) :
            BlocksOf(given.chapters[c]) # <<>> =>
                \A j \in 1..Len(RunsOf(BlocksOf(given.chapters[c])[1])) :
                    HoldsDecodable(RunsOf(BlocksOf(given.chapters[c])[1])[j]) =>
                        Get(RunsOf(BlocksOf(Prepared[c])[1])[j], "text") = JStr(<<>>)

\* A text field that decoded into blocks has been cleared.
C22_Cleared ==
    /\ pc = "prepared"
    /\ \E c \in 1..Len(given.chapters) :
          /\ BlocksOf(given.chapters[c]) # <<>>
          /\ \E j \in 1..Len(RunsOf(BlocksOf(given.chapters[c])[1])) :
                /\ HoldsDecodable(RunsOf(BlocksOf(given.chapters[c])[1])[j])
                /\ Get(RunsOf(BlocksOf(Prepared[c])[1])[j], "text") = JStr(<<>>)

\* C4: the Artifact Cleaner is idempotent: cleaning a cleaned text again
\* returns it unchanged, clean(clean(s)) = clean(s), for every text s.
C4_CleanIdempotent == Len(cleanHist) = 3 => cleanHist[3] = cleanHist[2]

RowTexts(rows) ==
    [i \in 1..Len(rows) |->
        [j \in 1..Len(rows[i].cells) |-> _extract_row_text([cells |-> <<rows[i].cells[j]>>])]]

\* C8: on the reference transposed table (nine single-cell rows 姓名, 年龄,
\* 城市, 张三, 30, 北京, 李四, 25, 上海) the normalizer returns one header row of
\* three cells followed by exactly the two data rows [张三, 30, 北京] and
\* [李四, 25, 上海].
C8_ReferenceTableTransposed ==
    (tableOut.done /\ tableIn = ReferenceRows) =>
        /\ RowTexts(tableOut.rows) =
              << SubSeq(ReferenceTexts, 1, 3), SubSeq(ReferenceTexts, 4, 6),
                 SubSeq(ReferenceTexts, 7, 9) >>
        /\ \A j \in 1..3 : tableOut.rows[1].cells[j].header

Rectangular(rows) ==
    \A i \in 1..Len(rows) : Len(rows[i].cells) = Len(rows[1].cells)

AllSingleCell(rows) == \A i \in 1..Len(rows) : Len(rows[i].cells) = 1

RECURSIVE AllAllowedDeep(_)
\* Every block of the sequence, and of every item of its lists, is allowed.
AllAllowedDeep(blocks) ==
    \A i \in 1..Len(blocks) :
        /\ blocks[i].type \in CALLOUT_ALLOWED_TYPES
        /\ blocks[i].type = "list" =>
              \A j \in 1..Len(blocks[i].items) : AllAllowedDeep(blocks[i].items[j])

RECURSIVE HasDisallowedDeep(_)
HasDisallowedDeep(blocks) ==
    \E i \in 1..Len(blocks) :
        \/ blocks[i].type \notin CALLOUT_ALLOWED_TYPES
        \/ /\ blocks[i].type = "list"
           /\ \E j \in 1..Len(blocks[i].items) : HasDisallowedDeep(blocks[i].items[j])

\* C6: every block kept inside the callout has an allowed type (paragraph,
\* list, table, blockquote, code, math, figure, kpiGrid), and so has every
\* block inside every item of a kept list, through nested lists.
C6_KeptAllowed == calloutOut.done => AllAllowedDeep(calloutOut.kept)

\* A list whose items hold a disallowed block was sanitized and kept in part.
C6_Witness ==
    /\ calloutOut.done
    /\ \E i \in 1..Len(calloutIn) :
          calloutIn[i].type = "list" /\ HasDisallowedDeep(<<calloutIn[i]>>)
    /\ \E i \in 1..Len(calloutOut.kept) :
          calloutOut.kept[i].type = "list" /\ calloutOut.kept[i].items # <<>>
    /\ calloutOut.overflow # <<>>

NoListChild(blocks) == \A i \in 1..Len(blocks) : blocks[i].type # "list"

Disallowed(blocks) == {i \in 1..Len(blocks) : blocks[i].type \notin CALLOUT_ALLOWED_TYPES}

\* C7: for a callout without a list child, kept is the children before the
\* first disallowed child and overflow is that child and all its following
\* siblings; with no disallowed child kept is all children and overflow is
\* empty. [paragraph, table, widget, paragraph] gives kept [paragraph, table]
\* and overflow [widget, paragraph].
C7_SplitPoint ==
    (calloutOut.done /\ NoListChild(calloutIn)) =>
        LET bad == Disallowed(calloutIn)
            first == IF bad = {} THEN Len(calloutIn) + 1
                     ELSE CHOOSE i \in bad : \A j \in bad : i <= j
        IN  /\ calloutOut.kept = SubSeq(calloutIn, 1, first - 1)
            /\ calloutOut.overflow = SubSeq(calloutIn, first, Len(calloutIn))
            /\ calloutIn = ReferenceCallout =>
                  /\ calloutOut.kept = <<Leaf("paragraph", 1), Leaf("table", 3)>>
                  /\ calloutOut.overflow = <<Leaf("widget", 4), Leaf("paragraph", 2)>>

\* The reference callout was split.
C7_Witness ==
    /\ calloutOut.done /\ calloutIn = ReferenceCallout
    /\ Len(calloutOut.kept) = 2 /\ Len(calloutOut.overflow) = 2


\* Chapters that each hold one level-1 heading followed by level-2 headings
\* only, every heading with an anchor of its own.
LevelOneThenTwos(chapters) ==
    \A c \in 1..Len(chapters) :
        /\ Len(chapters[c].blocks) >= 1
        /\ \A j \in 1..Len(chapters[c].blocks) :
              /\ chapters[c].blocks[j].type = "heading"
              /\ chapters[c].blocks[j].anchor = AnchorOf(c, j)
              /\ chapters[c].blocks[j].level = (IF j = 1 THEN 1 ELSE 2)

\* The Chinese numerals of 1..4 followed by the enumeration comma.
ChapterLabels ==
    << <<"U+4E00", "U+3001">>, <<"U+4E8C", "U+3001">>, <<"U+4E09", "U+3001">>,
       <<"U+56DB", "U+3001">> >>

\* The label given to heading j of chapter c.
LabelAt(c, j) == labelOut.map[labelIn[c].blocks[j].anchor].label

\* C10: in a document whose chapters c = 1..n each hold one level-1 heading
\* followed by k level-2 headings with distinct anchors, the first heading of
\* chapter c is labelled with the Chinese numeral of c and the enumeration
\* comma, the following ones c.1 .. c.k; for n = 2, k = 2 the labels are
\* exactly those of 1, 1.1, 1.2, 2, 2.1, 2.2.
C10_HeadingNumbering ==
    (labelOut.done /\ LevelOneThenTwos(labelIn)) =>
        /\ \A c \in 1..Len(labelIn) : \A j \in 1..Len(labelIn[c].blocks) :
              LabelAt(c, j) = IF j = 1 THEN ChapterLabels[c]
                              ELSE Decimal(c) \o <<".">> \o Decimal(j - 1)
        /\ (Len(labelIn) = 2 /\ \A c \in 1..2 : Len(labelIn[c].blocks) = 3) =>
              <<LabelAt(1, 1), LabelAt(1, 2), LabelAt(1, 3),
                LabelAt(2, 1), LabelAt(2, 2), LabelAt(2, 3)>> =
              << <<"U+4E00", "U+3001">>, <<"1", ".", "1">>, <<"1", ".", "2">>,
                 <<"U+4E8C", "U+3001">>, <<"2", ".", "1">>, <<"2", ".", "2">> >>

\* Two chapters of one level-1 and two level-2 headings were labelled.
C10_Witness ==
    /\ labelOut.done /\ LevelOneThenTwos(labelIn)
    /\ Len(labelIn) = 2 /\ \A c \in 1..2 : Len(labelIn[c].blocks) = 3
    /\ Cardinality(DOMAIN labelOut.map) = 6


\* The counters of _compute_heading_labels after the first j blocks of
\* chapter c: section, subsection and deep (section_idx, subsection_idx and
\* deep_counters).
CountersAt(c, j) ==
    LabelBlocks(ChapterStart(<<>>), c,
                [labelIn[c] EXCEPT !.blocks = SubSeq(@, 1, j)], 1)

\* Every block of the chapter is a heading with an anchor of its own.
OwnAnchors(chapter) ==
    \A j \in 1..Len(chapter.blocks) : chapter.blocks[j].anchor # ""

\* c.s.ss followed by the values of the deep counters in ascending level
\* order.
DottedLabel(c, counters) ==
    JoinDots(<<Decimal(c), Decimal(counters.section), Decimal(counters.subsection)>>
             \o [i \in 1..Len(SortedLevels(DOMAIN counters.deep)) |->
                    Decimal(counters.deep[SortedLevels(DOMAIN counters.deep)[i]])])

\* C23: after the chapter's first heading, a level-3 heading adds one to
\* the subsection counter, clears the deeper counters and is labelled
\* c.s.ss; a heading of level L > 3 adds one to the counter of depth L,
\* leaves the subsection counter and the other deep counters alone and is
\* labelled c.s.ss followed by the deep counters in ascending level order;
\* a heading of level <= 2 sets the subsection counter to 0 and clears
\* the deeper counters.
C23_DeepNumbering ==
    labelOut.done =>
        \A c \in 1..Len(labelIn) :
            OwnAnchors(labelIn[c]) =>
                \A j \in 2..Len(labelIn[c].blocks) :
                    LET level == labelIn[c].blocks[j].level
                        before == CountersAt(c, j - 1)
                        after == CountersAt(c, j)
                    IN  IF level <= 2
                        THEN after.subsection = 0 /\ after.deep = <<>>
                        ELSE IF level = 3
                        THEN /\ after.subsection = before.subsection + 1
                             /\ after.deep = <<>>
                             /\ LabelAt(c, j) = DottedLabel(c, after)
                        ELSE /\ after.subsection = before.subsection
                             /\ DOMAIN after.deep = DOMAIN before.deep \cup {level}
                             /\ \A l \in DOMAIN after.deep :
                                   after.deep[l] =
                                       IF l # level THEN before.deep[l]
                                       ELSE IF l \in DOMAIN before.deep
                                       THEN before.deep[l] + 1 ELSE 1
                             /\ LabelAt(c, j) = DottedLabel(c, after)

\* A level-3 heading after the first heading got the label c.1.1.
C23_LevelThree ==
    /\ labelOut.done
    /\ \E c \in 1..Len(labelIn) :
          /\ OwnAnchors(labelIn[c])
          /\ Len(labelIn[c].blocks) >= 2
          /\ labelIn[c].blocks[2].level = 3
          /\ LabelAt(c, 2) = JoinDots(<<Decimal(c), <<"1">>, <<"1">>>>)

\* The text begins, after leading white space, with a digit or a Chinese
\* numeral: the start of an ordinal prefix such as "1.2 " or "U+4E00 U+3001".
LeadsWithOrdinal(text) ==
    /\ LStrip(text) # <<>>
    /\ LStrip(text)[1] \in {"0", "1", "2", "3", "4", "5", "6", "7", "8", "9"}
                            \cup {Numerals[i] : i \in 1..Len(Numerals)}

\* The title recorded for heading j of chapter c.
TitleAt(c, j) == labelOut.map[labelIn[c].blocks[j].anchor].title

\* C24: the title the Heading Labeler records is the raw heading text
\* without its leading ordinal prefix ("1.2 T" and "U+4E00 U+3001 T" give
\* "T"), and the whole trimmed raw text when the text has no leading
\* ordinal prefix, as for a title of two plain words.
C24_OnlyOrdinalPrefixes ==
    labelOut.done =>
        \A c \in 1..Len(labelIn) :
            OwnAnchors(labelIn[c]) =>
                \A j \in 1..Len(labelIn[c].blocks) :
                    TitleAt(c, j) =
                        IF LeadsWithOrdinal(labelIn[c].blocks[j].text)
                        THEN <<"T">>
                        ELSE Strip(labelIn[c].blocks[j].text)

\* The prefix "1.2 " was removed from a heading text.
C24_PrefixRemoved ==
    /\ labelOut.done
    /\ \E c \in 1..Len(labelIn) :
          /\ OwnAnchors(labelIn[c])
          /\ labelIn[c].blocks # <<>>
          /\ labelIn[c].blocks[1].text = <<"1", ".", "2", " ", "T">>
          /\ TitleAt(c, 1) = <<"T">>

\* The position of the first list child when every child before it has an
\* allowed type, 0 when there is none.
FirstListChild(blocks) ==
    LET lists == {k \in 1..Len(blocks) :
                     /\ blocks[k].type = "list"
                     /\ \A i \in 1..(k - 1) :
                           blocks[i].type \in CALLOUT_ALLOWED_TYPES \ {"list"}}
    IN  IF lists = {} THEN 0 ELSE CHOOSE k \in lists : TRUE

\* The first item whose sanitization yields overflow, 0 when there is none.
FirstOverflowing(items) ==
    LET over == {i \in 1..Len(items) : _split_callout_content(items[i]).overflow # <<>>}
    IN  IF over = {} THEN 0 ELSE CHOOSE i \in over : \A j \in over : i <= j

\* The sanitized items 1..j-1 and the non-empty sanitized prefix of item j.
ItemsThrough(items, j) ==
    [i \in 1..(j - 1) |-> _split_callout_content(items[i]).kept]
    \o (IF _split_callout_content(items[j]).kept # <<>>
        THEN <<_split_callout_content(items[j]).kept>> ELSE <<>>)

\* kept and overflow of a callout whose list child at k overflows at item
\* j, the kept list holding keptItems (no list when there are none).
ListSplit(blocks, k, j, keptItems) ==
    [kept |-> SubSeq(blocks, 1, k - 1)
              \o (IF keptItems = <<>> THEN <<>>
                  ELSE <<[blocks[k] EXCEPT !.items = keptItems]>>),
     overflow |-> _split_callout_content(blocks[k].items[j]).overflow
                  \o Concat(SubSeq(blocks[k].items, j + 1, Len(blocks[k].items)))
                  \o SubSeq(blocks, k + 1, Len(blocks))]

\* The first list child of the callout has an item that yields overflow.
ListOverflows ==
    /\ calloutOut.done
    /\ FirstListChild(calloutIn) # 0
    /\ FirstOverflowing(calloutIn[FirstListChild(calloutIn)].items) # 0

\* C25 as stated: when item j is the first item of a list child that
\* yields overflow, the kept list holds the sanitized items before j and
\* the non-empty sanitized prefix of item j; the overflow is item j's
\* overflow, then the blocks of the items after j, then the siblings after
\* the list; no child after the list is kept.
C25_ListOverflowAsStated ==
    ListOverflows =>
        LET k == FirstListChild(calloutIn)
            j == FirstOverflowing(calloutIn[k].items)
        IN  [kept |-> calloutOut.kept, overflow |-> calloutOut.overflow] =
            ListSplit(calloutIn, k, j, ItemsThrough(calloutIn[k].items, j))

\* C25, amended: as above, the kept list holding only the non-empty
\* sanitized items before j (an item that sanitizes to nothing is left
\* out) and the non-empty sanitized prefix of item j.
C25_ListOverflow ==
    ListOverflows =>
        LET k == FirstListChild(calloutIn)
            j == FirstOverflowing(calloutIn[k].items)
        IN  [kept |-> calloutOut.kept, overflow |-> calloutOut.overflow] =
            ListSplit(calloutIn, k, j,
                      SelectSeq(ItemsThrough(calloutIn[k].items, j),
                                LAMBDA item : item # <<>>))

\* A list overflowed at its second item, which kept a prefix, and
\* siblings followed the list.
C25_Witness ==
    /\ ListOverflows
    /\ FirstOverflowing(calloutIn[FirstListChild(calloutIn)].items) = 2
    /\ FirstListChild(calloutIn) < Len(calloutIn)
    /\ calloutOut.kept # <<>>
    /\ Len(calloutOut.kept[Len(calloutOut.kept)].items) = 2
    /\ Len(calloutOut.overflow) >= 2

\* The marks of the run are dicts and none of them is a math mark.
NoMathMark(run) ==
    \A i \in 1..Len(Get(run, "marks").e) : TypeOf(Get(run, "marks").e[i]) # "math"

\* The orders the n marks of a run can be given in.
Orders(n) == {p \in [1..n -> 1..n] : \A i, j \in 1..n : p[i] = p[j] => i = j}

\* C26: for a run without a math mark, the rendered fragment is the same
\* for every order of the run's marks.
C26_MarkOrderIndependent ==
    (inlineOut.done /\ NoMathMark(inlineIn)) =>
        \A p \in Orders(Len(Get(inlineIn, "marks").e)) :
            _render_inline(MarkedRun([i \in 1..Len(Get(inlineIn, "marks").e) |->
                                         Get(inlineIn, "marks").e[p[i]]])).html
            = inlineOut.html

\* A run with two marks and no math mark was rendered.
C26_TwoMarks ==
    /\ inlineOut.done /\ inlineOut.ok /\ NoMathMark(inlineIn)
    /\ Len(Get(inlineIn, "marks").e) = 2
    /\ inlineOut.html # <<>>

\* The tokens that open an element and the tokens that close one, with the
\* element's name; <a and <span start an opening tag that has attributes.
OpeningTokens ==
    [x \in {"<strong>", "<em>", "<code>", "<mark>", "<sub>", "<sup>", "<a", "<span",
            "<span class=\"broken-link\">"} |->
        CASE x = "<strong>" -> "strong" [] x = "<em>" -> "em" [] x = "<code>" -> "code"
          [] x = "<mark>" -> "mark" [] x = "<sub>" -> "sub" [] x = "<sup>" -> "sup"
          [] x = "<a" -> "a" [] OTHER -> "span"]

ClosingTokens ==
    [x \in {"</strong>", "</em>", "</code>", "</mark>", "</sub>", "</sup>", "</a>",
            "</span>"} |->
        CASE x = "</strong>" -> "strong" [] x = "</em>" -> "em" [] x = "</code>" -> "code"
          [] x = "</mark>" -> "mark" [] x = "</sub>" -> "sub" [] x = "</sup>" -> "sup"
          [] x = "</a>" -> "a" [] OTHER -> "span"]

\* The names of the elements the fragment opens, in order, and of those it
\* closes, in order.
OpenedIn(html) ==
    [i \in 1..Len(SelectSeq(html, LAMBDA x : x \in DOMAIN OpeningTokens)) |->
        OpeningTokens[SelectSeq(html, LAMBDA x : x \in DOMAIN OpeningTokens)[i]]]

ClosedIn(html) ==
    [i \in 1..Len(SelectSeq(html, LAMBDA x : x \in DOMAIN ClosingTokens)) |->
        ClosingTokens[SelectSeq(html, LAMBDA x : x \in DOMAIN ClosingTokens)[i]]]

\* Every element is opened before any is closed, and the closing tags are
\* the opening tags in reverse order.
ClosedInReverse(html) ==
    /\ \A i, j \in 1..Len(html) :
          (html[i] \in DOMAIN OpeningTokens /\ html[j] \in DOMAIN ClosingTokens) => i < j
    /\ Len(ClosedIn(html)) = Len(OpenedIn(html))
    /\ \A i \in 1..Len(OpenedIn(html)) :
          ClosedIn(html)[i] = OpenedIn(html)[Len(OpenedIn(html)) + 1 - i]

\* One style span, and it is the outermost element of the fragment.
StyleSpanOutermost(html) ==
    /\ Len(html) >= 4
    /\ SubSeq(html, 1, 3) = <<"<span", " ", "style=\"">>
    /\ html[Len(html)] = "</span>"
    /\ Cardinality({i \in 1..Len(html) : html[i] = "style=\""}) = 1

\* The run has a mark of type color, font, underline or strike.
HasStyleMark(run) ==
    \E i \in 1..Len(Get(run, "marks").e) :
        TypeOf(Get(run, "marks").e[i]) \in {"color", "font", "underline", "strike"}

\* The run has a mark that yields a style declaration: underline, strike,
\* a color with a value, a font with a family, a size or a weight.
HasStyleDeclaration(run) ==
    \E i \in 1..Len(Get(run, "marks").e) :
        LET mark == Get(run, "marks").e[i]
        IN  \/ TypeOf(mark) \in {"underline", "strike"}
            \/ TypeOf(mark) = "color" /\ Truthy(Get(mark, "value"))
            \/ /\ TypeOf(mark) = "font"
               /\ \E key \in {"family", "size", "weight"} : Truthy(Get(mark, key))

\* A run with at least one mark and no math mark was rendered.
MarkedRendered ==
    /\ inlineOut.done /\ inlineOut.ok
    /\ Get(inlineIn, "marks").e # <<>>
    /\ NoMathMark(inlineIn)

\* C29 as stated: for a run with at least one mark and no math mark the
\* closing tags are the opening tags in reverse order, each opened tag
\* closed once, and when a mark of type color, font, underline or strike
\* is present one style span is the outermost element.
C29_WellNestedAsStated ==
    MarkedRendered =>
        /\ ClosedInReverse(inlineOut.html)
        /\ HasStyleMark(inlineIn) => StyleSpanOutermost(inlineOut.html)

\* C29, amended: as above, the style span being there exactly when some
\* mark yields a style declaration (a color mark without a value yields
\* none).
C29_WellNested ==
    MarkedRendered =>
        /\ ClosedInReverse(inlineOut.html)
        /\ HasStyleDeclaration(inlineIn) => StyleSpanOutermost(inlineOut.html)
        /\ ~HasStyleDeclaration(inlineIn) =>
              \A i \in 1..Len(inlineOut.html) : inlineOut.html[i] # "style=\""

\* A run with a color, a link and bold was rendered: three elements,
\* the style span around the other two.
C29_Witness ==
    /\ MarkedRendered
    /\ HasStyleDeclaration(inlineIn)
    /\ OpenedIn(inlineOut.html) = <<"span", "a", "strong">>
    /\ ClosedIn(inlineOut.html) = <<"strong", "a", "span">>

RECURSIVE NonListBlocks(_)
\* The blocks read in order, the items of a list read in place of the
\* list.
NonListBlocks(blocks) ==
    Concat([i \in 1..Len(blocks) |->
               IF blocks[i].type = "list"
               THEN Concat([j \in 1..Len(blocks[i].items) |->
                               NonListBlocks(blocks[i].items[j])])
               ELSE <<blocks[i]>>])

\* C27: the non-list blocks of kept followed by those of overflow, read
\* in order through the items of lists, are exactly those of the callout's
\* children read the same way: none lost, duplicated or moved.
C27_ContentPreserved ==
    calloutOut.done =>
        NonListBlocks(calloutOut.kept) \o NonListBlocks(calloutOut.overflow)
        = NonListBlocks(calloutIn)

\* A list that holds a nested list was cut: blocks of it were kept, others
\* overflowed, and both parts hold blocks that were inside lists.
C27_Witness ==
    /\ calloutOut.done
    /\ \E i \in 1..Len(calloutIn) :
          /\ calloutIn[i].type = "list"
          /\ \E j \in 1..Len(calloutIn[i].items) :
                \E k \in 1..Len(calloutIn[i].items[j]) :
                    calloutIn[i].items[j][k].type = "list"
    /\ Len(NonListBlocks(calloutOut.kept)) >= 2
    /\ Len(NonListBlocks(calloutOut.overflow)) >= 3
    /\ Len(calloutOut.overflow) < Len(NonListBlocks(calloutIn))

\* C28: within a chapter whose headings have anchors of their own, no two
\* headings get the same label, whatever their levels.
C28_LabelsDistinct ==
    labelOut.done =>
        \A c \in 1..Len(labelIn) :
            OwnAnchors(labelIn[c]) =>
                \A i, j \in 1..Len(labelIn[c].blocks) :
                    i < j => LabelAt(c, i) # LabelAt(c, j)

\* A level-4 heading, a level-3 heading and another level-4 heading after
\* the chapter's first heading were labelled.
C28_FourThreeFour ==
    /\ labelOut.done
    /\ Len(labelIn[1].blocks) = 4
    /\ [j \in 1..4 |-> labelIn[1].blocks[j].level] = <<1, 4, 3, 4>>
    /\ LabelAt(1, 3) = <<"1", ".", "1", ".", "1">>

\* The number of TOC sections in a fragment.
TocCount(html) == Cardinality({i \in 1..Len(html) : html[i] = "<nav class=\"toc\""})

\* C30: in every step of a render call, once the TOC section has been
\* rendered the flag toc_rendered stays set; a chapter rendered after that
\* adds no TOC section, whatever toc blocks it holds; with no TOC entries
\* the flag stays clear and nothing rendered holds a TOC section; the page
\* returned holds one TOC section when there are entries and none
\* otherwise.
C30_TocOnce ==
    [][/\ (pc = "body" /\ renderer.toc_rendered) => renderer'.toc_rendered
       /\ (pc = "body" /\ pc' = "body") =>
              TocCount(out'.chapters[Len(out'.chapters)]) = 0
       /\ (pc \in {"indexed", "body"} /\ renderer.toc_entries = <<>>) =>
              /\ ~renderer'.toc_rendered
              /\ TocCount(out'.toc_section) = 0
       /\ pc' = "body" => (renderer'.toc_rendered <=> renderer'.toc_entries # <<>>)
       /\ pc' = "done" =>
              TocCount(out'.html) = IF renderer'.toc_entries # <<>> THEN 1 ELSE 0]_vars

\* A chapter that holds a toc block was rendered after the TOC section,
\* and the page returned holds one TOC section.
C30_Witness ==
    /\ pc = "done"
    /\ renderer.toc_rendered
    /\ \E c \in 1..Len(given.chapters) :
          \E i \in 1..Len(BlocksOf(given.chapters[c])) :
              /\ IsDict(BlocksOf(given.chapters[c])[i])
              /\ TypeOf(BlocksOf(given.chapters[c])[i]) = "toc"
    /\ TocCount(out.html) = 1

\* A page was returned without a TOC section, the flag clear.
C30_NoEntries ==
    /\ pc = "done"
    /\ renderer.toc_entries = <<>>
    /\ ~renderer.toc_rendered
    /\ TocCount(out.html) = 0

====
